---- MODULE Spec2Model ----
(***************************************************************************)
(* Policy-Compliance-Checker: the schema-agnostic rule evaluator           *)
(* (backend/app/services/evaluator.py), the payload normalizers            *)
(* (backend/app/api/routes.py, backend/app/services/file_parser.py) and    *)
(* the two evaluation request flows of routes.py.                          *)
(*                                                                         *)
(* JSON values are tagged records; a Python dict is a sequence of          *)
(* <<key, value>> pairs in insertion order; a Python exception that leaves *)
(* a function is the outcome Raise(..) of the operator that models it.     *)
(***************************************************************************)
EXTENDS Integers, Sequences, FiniteSets, TLC

VARIABLES
    flow,             \* which entry point this run exercises
    user_records,     \* the user payloads of the request
    policy_records,   \* the policy payloads of the request
    users,            \* the users list handed to the batch evaluator
    policies,         \* the policies list handed to the batch evaluator
    user_contexts,    \* its user_contexts argument
    policy_contexts,  \* its policy_contexts argument
    results,          \* the list evaluate_users_against_policies returned
    stored,           \* the EvaluationResult rows committed by the request
    pc,               \* "ready", then "done" or "raised"
    response,         \* HTTP status of the request, 0 while there is none
    norm_failed,      \* a _normalize_policies_from_payload call raised
    evaluated,        \* evaluate_users_against_policies was called
    search,           \* the data and min_size of a _find_largest_array call
    returned          \* the <<key path, list>> that call returned

vars == <<flow, user_records, policy_records, users, policies, user_contexts,
          policy_contexts, results, stored, pc, response, norm_failed, evaluated,
          search, returned>>

----------------------------------------------------------------------------
(* JSON values *)

Null == [t |-> "null"]
Bool(b) == [t |-> "bool", b |-> b]
Num(n) == [t |-> "num", n |-> n]
Str(s) == [t |-> "str", s |-> s]
List(xs) == [t |-> "list", xs |-> xs]
Dict(kv) == [t |-> "dict", kv |-> kv]

IsNull(v) == v.t = "null"
IsDict(v) == v.t = "dict"
IsList(v) == v.t = "list"
IsStr(v) == v.t = "str"

\* the keys of a dict, in insertion order
Keys(d) == [i \in 1..Len(d.kv) |-> d.kv[i][1]]

\* Python: key in d   (d a dict, key a str)
HasKey(d, key) == \E i \in 1..Len(d.kv) : d.kv[i][1] = key

\* Python: d[key]
Get(d, key) == d.kv[CHOOSE i \in 1..Len(d.kv) : d.kv[i][1] = key][2]

\* Python: d.get(key, default)
GetOr(d, key, default) == IF HasKey(d, key) THEN Get(d, key) ELSE default

\* the numeric value Python gives a bool or an int (True == 1, False == 0)
NumOf(v) == IF v.t = "bool" THEN (IF v.b THEN 1 ELSE 0) ELSE v.n

IsNumeric(v) == v.t \in {"bool", "num"}

RECURSIVE PyEq(_, _)
\* Python: a == b on JSON values (bool is an int; dict equality ignores order)
PyEq(a, b) ==
    IF IsNumeric(a) /\ IsNumeric(b) THEN NumOf(a) = NumOf(b)
    ELSE IF a.t # b.t THEN FALSE
    ELSE CASE a.t = "null" -> TRUE
           [] a.t = "str" -> a.s = b.s
           [] a.t = "list" -> /\ Len(a.xs) = Len(b.xs)
                              /\ \A i \in 1..Len(a.xs) : PyEq(a.xs[i], b.xs[i])
           [] a.t = "dict" -> /\ Len(a.kv) = Len(b.kv)
                              /\ \A i \in 1..Len(a.kv) :
                                    /\ HasKey(b, a.kv[i][1])
                                    /\ PyEq(a.kv[i][2], Get(b, a.kv[i][1]))

\* Python truthiness: bool(v)
Truthy(v) ==
    CASE v.t = "null" -> FALSE
      [] v.t = "bool" -> v.b
      [] v.t = "num" -> v.n # 0
      [] v.t = "str" -> v.s # ""
      [] v.t = "list" -> Len(v.xs) > 0
      [] v.t = "dict" -> Len(v.kv) > 0

----------------------------------------------------------------------------
(* str methods *)

Ch(s, i) == SubSeq(s, i, i)

UpperChars == "ABCDEFGHIJKLMNOPQRSTUVWXYZ"
LowerChars == "abcdefghijklmnopqrstuvwxyz"
DigitChars == "0123456789"
Whitespace == {" ", "\t", "\n"}

IndexIn(alphabet, c) ==
    IF \E i \in 1..Len(alphabet) : Ch(alphabet, i) = c
    THEN CHOOSE i \in 1..Len(alphabet) : Ch(alphabet, i) = c
    ELSE 0

LowerCh(c) == IF IndexIn(UpperChars, c) = 0 THEN c
              ELSE Ch(LowerChars, IndexIn(UpperChars, c))
UpperCh(c) == IF IndexIn(LowerChars, c) = 0 THEN c
              ELSE Ch(UpperChars, IndexIn(LowerChars, c))

RECURSIVE Lower(_)
\* str.lower()
Lower(s) == IF s = "" THEN "" ELSE LowerCh(Ch(s, 1)) \o Lower(SubSeq(s, 2, Len(s)))

RECURSIVE Upper(_)
\* str.upper()
Upper(s) == IF s = "" THEN "" ELSE UpperCh(Ch(s, 1)) \o Upper(SubSeq(s, 2, Len(s)))

RECURSIVE LStrip(_)
LStrip(s) == IF s # "" /\ Ch(s, 1) \in Whitespace THEN LStrip(SubSeq(s, 2, Len(s))) ELSE s

RECURSIVE RStrip(_)
RStrip(s) == IF s # "" /\ Ch(s, Len(s)) \in Whitespace THEN RStrip(SubSeq(s, 1, Len(s) - 1)) ELSE s

\* str.strip()
Strip(s) == RStrip(LStrip(s))

RECURSIVE ReplaceCh(_, _, _)
\* str.replace(old, new) for a one-character old
ReplaceCh(s, old, new) ==
    IF s = "" THEN ""
    ELSE (IF Ch(s, 1) = old THEN new ELSE Ch(s, 1)) \o ReplaceCh(SubSeq(s, 2, Len(s)), old, new)

\* str.startswith(p)
StartsWith(s, p) == Len(p) <= Len(s) /\ SubSeq(s, 1, Len(p)) = p

\* str.endswith(p)
EndsWith(s, p) == Len(p) <= Len(s) /\ SubSeq(s, Len(s) - Len(p) + 1, Len(s)) = p

\* Python: p in s   (both str)
Contains(s, p) == \E i \in 1..(Len(s) - Len(p) + 1) : SubSeq(s, i, i + Len(p) - 1) = p

RECURSIVE Split(_, _)
\* str.split(sep) for a one-character sep: always at least one part
Split(s, sep) ==
    IF \E i \in 1..Len(s) : Ch(s, i) = sep
    THEN LET i == CHOOSE j \in 1..Len(s) : Ch(s, j) = sep /\ \A k \in 1..(j - 1) : Ch(s, k) # sep
         IN <<SubSeq(s, 1, i - 1)>> \o Split(SubSeq(s, i + 1, Len(s)), sep)
    ELSE <<s>>

AllDigits(s) == s # "" /\ \A i \in 1..Len(s) : IndexIn(DigitChars, Ch(s, i)) # 0

RECURSIVE DigitsValue(_)
DigitsValue(s) == IF s = "" THEN 0
                  ELSE 10 * DigitsValue(SubSeq(s, 1, Len(s) - 1))
                       + (IndexIn(DigitChars, Ch(s, Len(s))) - 1)

RECURSIVE NatStr(_)
NatStr(n) == IF n < 10 THEN Ch(DigitChars, n + 1)
             ELSE NatStr(n \div 10) \o Ch(DigitChars, (n % 10) + 1)

\* str(n) for an int
IntStr(n) == IF n < 0 THEN "-" \o NatStr(0 - n) ELSE NatStr(n)

----------------------------------------------------------------------------
(* Python built-ins applied to JSON values *)

RECURSIVE PyRepr(_)
RECURSIVE JoinRepr(_, _)
RECURSIVE JoinItems(_, _)
\* repr(v)
PyRepr(v) ==
    CASE v.t = "null" -> "None"
      [] v.t = "bool" -> IF v.b THEN "True" ELSE "False"
      [] v.t = "num" -> IntStr(v.n)
      [] v.t = "str" -> "'" \o v.s \o "'"
      [] v.t = "list" -> "[" \o JoinRepr(v.xs, 1) \o "]"
      [] v.t = "dict" -> "{" \o JoinItems(v.kv, 1) \o "}"
JoinRepr(xs, i) ==
    IF i > Len(xs) THEN ""
    ELSE PyRepr(xs[i]) \o (IF i < Len(xs) THEN ", " ELSE "") \o JoinRepr(xs, i + 1)
JoinItems(kv, i) ==
    IF i > Len(kv) THEN ""
    ELSE "'" \o kv[i][1] \o "': " \o PyRepr(kv[i][2])
         \o (IF i < Len(kv) THEN ", " ELSE "") \o JoinItems(kv, i + 1)

\* str(v)
PyStr(v) == IF v.t = "str" THEN v.s ELSE PyRepr(v)

\* list and dict values are unhashable
Hashable(v) == v.t \notin {"list", "dict"}

\* float(v): [ok, v] or the exception raised.  Of the str literals float()
\* accepts, the decimal integers (optional sign, surrounding blanks) are
\* modelled; the value pools hold no other numeric spelling.
FloatOf(v) ==
    LET Digits(negative, body) ==
            IF AllDigits(body)
            THEN [ok |-> TRUE,
                  v |-> IF negative THEN 0 - DigitsValue(body) ELSE DigitsValue(body)]
            ELSE [ok |-> FALSE, exc |-> "ValueError"]
        Literal(s) ==
            IF s # "" /\ Ch(s, 1) \in {"+", "-"}
            THEN Digits(Ch(s, 1) = "-", SubSeq(s, 2, Len(s)))
            ELSE Digits(FALSE, s)
    IN CASE v.t \in {"bool", "num"} -> [ok |-> TRUE, v |-> NumOf(v)]
         [] v.t = "str" -> Literal(Strip(v.s))
         [] OTHER -> [ok |-> FALSE, exc |-> "TypeError"]

IsLeap(y) == (y % 4 = 0 /\ y % 100 # 0) \/ y % 400 = 0

DaysInMonth(y, m) ==
    IF m = 2 THEN (IF IsLeap(y) THEN 29 ELSE 28)
    ELSE IF m \in {4, 6, 9, 11} THEN 30 ELSE 31

\* days since 1970-01-01 of a proleptic Gregorian date
DaysFromCivil(y, m, d) ==
    LET yy == IF m <= 2 THEN y - 1 ELSE y
        era == yy \div 400
        yoe == yy - era * 400
        mp == IF m > 2 THEN m - 3 ELSE m + 9
        doy == (153 * mp + 2) \div 5 + d - 1
        doe == yoe * 365 + yoe \div 4 - yoe \div 100 + doy
    IN era * 146097 + doe - 719468

Field2(s, i) == SubSeq(s, i, i + 1)

\* datetime.fromisoformat(s): the shapes YYYY-MM-DD, YYYY-MM-DDTHH:MM:SS and
\* YYYY-MM-DDTHH:MM:SS+HH:MM (any one separator character before the time).
\* [ok |-> FALSE] is ValueError; else aware tells whether an offset was given
\* and <<day, sec>> is the instant (the UTC instant when aware).
FromIsoFormat(s) ==
    LET n == Len(s)
        F(i) == DigitsValue(Field2(s, i))
        dateOk == /\ n >= 10
                  /\ AllDigits(SubSeq(s, 1, 4)) /\ Ch(s, 5) = "-"
                  /\ AllDigits(Field2(s, 6)) /\ Ch(s, 8) = "-"
                  /\ AllDigits(Field2(s, 9))
        timeOk == /\ n >= 19
                  /\ AllDigits(Field2(s, 12)) /\ Ch(s, 14) = ":"
                  /\ AllDigits(Field2(s, 15)) /\ Ch(s, 17) = ":"
                  /\ AllDigits(Field2(s, 18))
        offOk == /\ n = 25
                 /\ Ch(s, 20) \in {"+", "-"}
                 /\ AllDigits(Field2(s, 21)) /\ Ch(s, 23) = ":"
                 /\ AllDigits(Field2(s, 24))
        \* the instant day0 + raw seconds, raw within one day of [0, 86400)
        At(day0, raw) ==
            <<day0 + (IF raw < 0 THEN -1 ELSE IF raw >= 86400 THEN 1 ELSE 0),
              IF raw < 0 THEN raw + 86400 ELSE IF raw >= 86400 THEN raw - 86400 ELSE raw>>
        Instant(y, mo, d, h, mi, se, oh, om, sign) ==
            IF /\ y >= 1 /\ mo \in 1..12 /\ d \in 1..DaysInMonth(y, mo)
               /\ h < 24 /\ mi < 60 /\ se < 60 /\ oh < 24 /\ om < 60
            THEN [ok |-> TRUE, aware |-> n > 19,
                  at |-> At(DaysFromCivil(y, mo, d),
                            h * 3600 + mi * 60 + se - sign * (oh * 3600 + om * 60))]
            ELSE [ok |-> FALSE]
    IN IF dateOk /\ (n = 10 \/ (timeOk /\ (n = 19 \/ offOk)))
       THEN Instant(DigitsValue(SubSeq(s, 1, 4)), F(6), F(9),
                    IF n > 10 THEN F(12) ELSE 0,
                    IF n > 10 THEN F(15) ELSE 0,
                    IF n > 10 THEN F(18) ELSE 0,
                    IF n > 19 THEN F(21) ELSE 0,
                    IF n > 19 THEN F(24) ELSE 0,
                    IF n > 19 /\ Ch(s, 20) = "-" THEN -1 ELSE 1)
       ELSE [ok |-> FALSE]

\* lexicographic order of two instants: -1, 0 or 1
CmpInstant(x, y) ==
    IF x[1] # y[1] THEN (IF x[1] < y[1] THEN -1 ELSE 1)
    ELSE IF x[2] # y[2] THEN (IF x[2] < y[2] THEN -1 ELSE 1)
    ELSE 0

Count(s, c) == Cardinality({i \in 1..Len(s) : Ch(s, i) = c})

\* re.compile(p) raises re.error: unbalanced parenthesis, unterminated
\* character set, or a leading quantifier (nothing to repeat)
RegexMalformed(p) ==
    \/ Count(p, "(") # Count(p, ")")
    \/ \E i \in 1..Len(p) : Ch(p, i) = "[" /\ \A j \in (i + 1)..Len(p) : Ch(p, j) # "]"
    \/ (p # "" /\ Ch(p, 1) \in {"*", "+", "?"})

RECURSIVE Elements(_)
\* the elements of a pattern body, one per character it consumes: the
\* wildcard ., a character set [...] or a literal character
Elements(b) ==
    LET Set(close) ==
            <<[any |-> FALSE, set |-> {Ch(b, k) : k \in 2..(close - 1)}]>>
            \o Elements(SubSeq(b, close + 1, Len(b)))
    IN IF b = "" THEN <<>>
       ELSE IF Ch(b, 1) = "["
       THEN Set(CHOOSE j \in 2..Len(b) :
                   Ch(b, j) = "]" /\ \A k \in 2..(j - 1) : Ch(b, k) # "]")
       ELSE <<[any |-> Ch(b, 1) = ".", set |-> {Ch(b, 1)}]>>
            \o Elements(SubSeq(b, 2, Len(b)))

\* the elements es match s at offset i
MatchAt(es, s, i) ==
    /\ i + Len(es) - 1 <= Len(s)
    /\ \A j \in 1..Len(es) : es[j].any \/ Ch(s, i + j - 1) \in es[j].set

\* bool(re.search(p, s)) for the fragment ^? (literal | . | [set])* $? ; the
\* leaf pools hold no pattern outside this fragment except malformed ones
RegexSearch(p, s) ==
    LET Search(front, back, es) ==
            \E i \in 1..(Len(s) + 1) :
                /\ MatchAt(es, s, i)
                /\ front => i = 1
                /\ back => i + Len(es) - 1 = Len(s)
        Anchored(front, p1) ==
            IF p1 # "" /\ Ch(p1, Len(p1)) = "$"
            THEN Search(front, TRUE, Elements(SubSeq(p1, 1, Len(p1) - 1)))
            ELSE Search(front, FALSE, Elements(p1))
    IN IF p # "" /\ Ch(p, 1) = "^" THEN Anchored(TRUE, SubSeq(p, 2, Len(p)))
       ELSE Anchored(FALSE, p)

----------------------------------------------------------------------------
(* DynamicRuleEvaluator: key lists, alias table, operator registry *)

FIELD_KEYS == <<"field", "attribute", "key", "name", "property", "condition",
                "metric", "factor", "dimension">>
OP_KEYS == <<"op", "operator", "operation", "equals", "is", "comparison",
             "must_be", "check">>
VALUE_KEYS == <<"value", "expected", "target", "compare_to", "threshold",
                "limit", "minimum", "maximum">>

OPERATOR_ALIASES ==
    [equals |-> "==", equal |-> "==", is |-> "==", is_equal_to |-> "==",
     equal_to |-> "==", eq |-> "==",
     not_equal |-> "!=", not_equals |-> "!=", is_not |-> "!=",
     not_equal_to |-> "!=", ne |-> "!=", neq |-> "!=",
     greater_than |-> ">", greater |-> ">", gt |-> ">", more_than |-> ">",
     above |-> ">",
     less_than |-> "<", less |-> "<", lt |-> "<", below |-> "<", under |-> "<",
     greater_than_or_equal |-> ">=", greater_than_or_equal_to |-> ">=",
     gte |-> ">=", ge |-> ">=", at_least |-> ">=", minimum |-> ">=",
     less_than_or_equal |-> "<=", less_than_or_equal_to |-> "<=",
     lte |-> "<=", le |-> "<=", at_most |-> "<=", maximum |-> "<=",
     in |-> "in", within |-> "in", one_of |-> "in", any_of |-> "in",
     not_in |-> "not_in", not_within |-> "not_in", none_of |-> "not_in",
     contains |-> "contains", includes |-> "contains", has |-> "contains",
     not_contains |-> "not_contains", does_not_contain |-> "not_contains",
     excludes |-> "not_contains", contains_any |-> "contains_any",
     starts_with |-> "starts_with", begins_with |-> "starts_with",
     startswith |-> "starts_with", ends_with |-> "ends_with",
     endswith |-> "ends_with", matches |-> "regex", regex |-> "regex",
     pattern |-> "regex",
     exists |-> "exists", is_present |-> "exists", has_value |-> "exists",
     not_exists |-> "not_exists", is_absent |-> "not_exists",
     no_value |-> "not_exists", is_empty |-> "is_empty", empty |-> "is_empty",
     is_not_empty |-> "is_not_empty", not_empty |-> "is_not_empty",
     has_content |-> "is_not_empty"]

\* the keys of the registry OPS
OPS == {"==", "!=", ">", "<", ">=", "<=", "in", "not_in", "contains",
        "not_contains", "regex", "exists", "not_exists", "starts_with",
        "ends_with", "is_empty", "is_not_empty", "contains_any"}

\* What calling a registry handler does: it returns a bool, raises one of
\* the exceptions _evaluate_condition catches, or raises another one.
Val(b) == [k |-> "val", b |-> b]
Caught(e) == [k |-> "caught", e |-> e]
Uncaught(e) == [k |-> "uncaught", e |-> e]

Not(r) == IF r.k = "val" THEN Val(~r.b) ELSE r

StripParts(parts) == [i \in 1..Len(parts) |-> Strip(parts[i])]

_coerce_to_list(value) ==
    CASE value.t = "null" -> <<>>
      [] value.t = "list" -> value.xs
      [] value.t = "str" ->
            LET text == Strip(value.s)
                sep == IF Contains(text, "|") THEN "|"
                       ELSE IF Contains(text, ",") THEN "," ELSE ""
                parts == StripParts(Split(text, sep))
            IN IF sep # ""
               THEN [i \in 1..Len(SelectSeq(parts, LAMBDA q : q # "")) |->
                        Str(SelectSeq(parts, LAMBDA q : q # "")[i])]
               ELSE <<Str(text)>>
      [] OTHER -> <<value>>

_try_parse_datetime(value) ==
    IF value.t = "str"
    THEN LET s == Strip(value.s)
         IN FromIsoFormat(IF EndsWith(s, "Z")
                          THEN SubSeq(s, 1, Len(s) - 1) \o "+00:00" ELSE s)
    ELSE [ok |-> FALSE]

\* [ok |-> TRUE, c |-> sign of a - b] or the exception raised; comparing an
\* offset-naive with an offset-aware datetime is a TypeError at the caller's
\* comparison
_compare_datetime_or_number(a, b) ==
    LET Numbers(fa, fb) ==
            IF ~fa.ok THEN [ok |-> FALSE, exc |-> fa.exc]
            ELSE IF ~fb.ok THEN [ok |-> FALSE, exc |-> fb.exc]
            ELSE [ok |-> TRUE,
                  c |-> IF fa.v < fb.v THEN -1 ELSE IF fa.v > fb.v THEN 1 ELSE 0]
        Compare(da, db) ==
            IF da.ok /\ db.ok
            THEN IF da.aware # db.aware
                 THEN [ok |-> FALSE, exc |-> "TypeError"]
                 ELSE [ok |-> TRUE, c |-> CmpInstant(da.at, db.at)]
            ELSE Numbers(FloatOf(a), FloatOf(b))
    IN Compare(_try_parse_datetime(a), _try_parse_datetime(b))

\* the ordering operators without their test for None
Ordering_NoNoneTest(a, b, want) ==
    LET Verdict(r) == IF r.ok THEN Val(r.c \in want) ELSE Caught(r.exc)
    IN Verdict(_compare_datetime_or_number(a, b))

\* the shared body of _gt, _lt, _ge, _le; want is the set of signs accepted
Ordering(a, b, want) ==
    IF a.t = "null" \/ b.t = "null" THEN Val(FALSE)
    ELSE LET Verdict(r) == IF r.ok THEN Val(r.c \in want) ELSE Caught(r.exc)
         IN Verdict(_compare_datetime_or_number(a, b))

\* _ge with the comparison made strict: a == b is rejected
_ge_Strict(a, b) == Ordering(a, b, {1})

_gt(a, b) == Ordering(a, b, {1})
_lt(a, b) == Ordering(a, b, {-1})
_ge(a, b) == Ordering(a, b, {0, 1})
_le(a, b) == Ordering(a, b, {-1, 0})

\* Python: a in b   (b is not None)
PyIn(a, b) ==
    CASE b.t = "list" -> Val(\E i \in 1..Len(b.xs) : PyEq(a, b.xs[i]))
      [] b.t = "str" -> IF a.t = "str" THEN Val(Contains(b.s, a.s))
                        ELSE Caught("TypeError")
      [] b.t = "dict" -> IF ~Hashable(a) THEN Caught("TypeError")
                         ELSE Val(a.t = "str" /\ HasKey(b, a.s))
      [] OTHER -> Caught("TypeError")

\* any(x in set(expected_list) for x in actual_list)
AnyInSet(actual_list, expected_list) ==
    LET stop == {i \in 1..Len(actual_list) :
                    \/ ~Hashable(actual_list[i])
                    \/ \E j \in 1..Len(expected_list) :
                          PyEq(actual_list[i], expected_list[j])}
        first == CHOOSE i \in stop : \A j \in stop : i <= j
    IN IF Len(actual_list) = 0 THEN Val(FALSE)
       ELSE IF \E j \in 1..Len(expected_list) : ~Hashable(expected_list[j])
            THEN Caught("TypeError")
       ELSE IF stop = {} THEN Val(FALSE)
       ELSE IF ~Hashable(actual_list[first]) THEN Caught("TypeError")
       ELSE Val(TRUE)

RegexOp(a, b) ==
    IF RegexMalformed(PyStr(b)) THEN Uncaught("re.error")
    ELSE Val(RegexSearch(PyStr(b), PyStr(a)))

\* OPS[op](a, b) for op in OPS
ApplyOp(op, a, b) ==
    CASE op = "==" -> Val(PyEq(a, b))
      [] op = "!=" -> Val(~PyEq(a, b))
      [] op = ">" -> _gt(a, b)
      [] op = "<" -> _lt(a, b)
      [] op = ">=" -> _ge(a, b)
      [] op = "<=" -> _le(a, b)
      [] op = "in" -> IF b.t # "null" THEN PyIn(a, b) ELSE Val(FALSE)
      [] op = "not_in" -> IF b.t # "null" THEN Not(PyIn(a, b)) ELSE Val(TRUE)
      [] op = "contains" ->
            IF a.t = "null" THEN Val(FALSE)
            ELSE IF b.t = "str" THEN Val(Contains(PyStr(a), b.s)) ELSE Caught("TypeError")
      [] op = "not_contains" ->
            IF a.t = "null" THEN Val(TRUE)
            ELSE IF b.t = "str" THEN Val(~Contains(PyStr(a), b.s)) ELSE Caught("TypeError")
      [] op = "regex" -> IF a.t # "null" THEN RegexOp(a, b) ELSE Val(FALSE)
      [] op = "exists" -> Val(a.t # "null")
      [] op = "not_exists" -> Val(a.t = "null")
      [] op = "starts_with" ->
            IF a.t # "null" THEN Val(StartsWith(PyStr(a), PyStr(b))) ELSE Val(FALSE)
      [] op = "ends_with" ->
            IF a.t # "null" THEN Val(EndsWith(PyStr(a), PyStr(b))) ELSE Val(FALSE)
      [] op = "is_empty" -> IF a.t # "null" THEN Val(~Truthy(a)) ELSE Val(TRUE)
      [] op = "is_not_empty" -> IF a.t # "null" THEN Val(Truthy(a)) ELSE Val(FALSE)
      [] op = "contains_any" ->
            IF b.t # "null" THEN AnyInSet(_coerce_to_list(a), _coerce_to_list(b))
            ELSE Val(FALSE)

----------------------------------------------------------------------------
(* DynamicRuleEvaluator: the recursive evaluator *)

\* A call returns (passed, details) or lets an exception through.
Ret(passed, details) == [ok |-> TRUE, passed |-> passed, details |-> details]
Raise(exc) == [ok |-> FALSE, exc |-> exc]

_find_key_value(node, possible_keys) ==
    IF \E i \in 1..Len(possible_keys) : HasKey(node, possible_keys[i])
    THEN Get(node, possible_keys[
             CHOOSE i \in 1..Len(possible_keys) :
                /\ HasKey(node, possible_keys[i])
                /\ \A j \in 1..(i - 1) : ~HasKey(node, possible_keys[j])])
    ELSE Null

RECURSIVE Descend(_, _, _)
\* the loop of _get_nested_value over the split key
Descend(value, keys, i) ==
    IF i > Len(keys) THEN value
    ELSE IF IsDict(value) /\ HasKey(value, keys[i])
         THEN Descend(Get(value, keys[i]), keys, i + 1)
         ELSE Null

\* _get_nested_value without the literal top-level key test
_get_nested_value_NoLiteral(data, key) ==
    IF ~Truthy(key) THEN [ok |-> TRUE, v |-> Null]
    ELSE IF ~IsStr(key) THEN [ok |-> FALSE, exc |-> "AttributeError"]
    ELSE [ok |-> TRUE, v |-> Descend(data, Split(key.s, "."), 1)]

\* [ok |-> TRUE, v |-> value] or the exception raised (key is whatever the
\* rule held under its field key)
_get_nested_value(data, key) ==
    IF ~Truthy(key) THEN [ok |-> TRUE, v |-> Null]
    ELSE IF IsDict(data) /\ ~Hashable(key) THEN [ok |-> FALSE, exc |-> "TypeError"]
    ELSE IF ~IsStr(key) THEN [ok |-> FALSE, exc |-> "AttributeError"]
    ELSE IF IsDict(data) /\ HasKey(data, key.s) THEN [ok |-> TRUE, v |-> Get(data, key.s)]
    ELSE [ok |-> TRUE, v |-> Descend(data, Split(key.s, "."), 1)]

\* _normalize_operator without the strip() of surrounding blanks
_normalize_operator_NoStrip(operator) ==
    IF ~Truthy(operator) THEN "=="
    ELSE LET normalized == ReplaceCh(Lower(PyStr(operator)), " ", "_")
         IN IF normalized \in DOMAIN OPERATOR_ALIASES
            THEN OPERATOR_ALIASES[normalized]
            ELSE normalized

\* _normalize_operator without the lower()
_normalize_operator_NoLower(operator) ==
    IF ~Truthy(operator) THEN "=="
    ELSE LET normalized == ReplaceCh(Strip(PyStr(operator)), " ", "_")
         IN IF normalized \in DOMAIN OPERATOR_ALIASES
            THEN OPERATOR_ALIASES[normalized]
            ELSE normalized

_normalize_operator(operator) ==
    IF ~Truthy(operator) THEN "=="
    ELSE LET normalized == ReplaceCh(Strip(Lower(PyStr(operator))), " ", "_")
         IN IF normalized \in DOMAIN OPERATOR_ALIASES
            THEN OPERATOR_ALIASES[normalized]
            ELSE normalized

\* the metadata keys without title
metadata_keys_NoTitle == {"description", "name", "id", "policy_id", "rule_id",
                          "validation_name"}

\* the metadata keys with the field name status among them
metadata_keys_WithStatus == {"description", "name", "title", "id", "policy_id",
                             "rule_id", "validation_name", "status"}

metadata_keys == {"description", "name", "title", "id", "policy_id", "rule_id",
                  "validation_name"}

_evaluate_implicit_conditions(user, rule) ==
    LET Condition(key, expected, actual) ==
            [field |-> Str(key), operator |-> Str("=="), expected |-> expected,
             actual |-> actual, passed |-> PyEq(actual, expected)]
        Conditions(kept) ==
            [i \in 1..Len(kept) |->
                Condition(kept[i][1], kept[i][2],
                          _get_nested_value(user, Str(kept[i][1])).v)]
        Summary(conditions, all_passed) ==
            Ret(all_passed, [type |-> "implicit_conditions", passed |-> all_passed,
                             conditions |-> conditions])
        Result(conditions) ==
            IF Len(conditions) = 0
            THEN Ret(TRUE, [result |-> "no_implicit_conditions"])
            ELSE Summary(conditions, \A i \in 1..Len(conditions) : conditions[i].passed)
    IN Result(Conditions(SelectSeq(rule.kv, LAMBDA e : e[1] \notin metadata_keys)))

_evaluate_condition(user, rule) ==
    LET \* lines 358-379: the handler's outcome r becomes the trace
        Called(field, operator_normalized, expected, actual, r) ==
            IF r.k = "uncaught" THEN Raise(r.e)
            ELSE IF r.k = "caught"
            THEN Ret(FALSE, [type |-> "condition", field |-> field,
                             operator |-> operator_normalized, expected |-> expected,
                             actual |-> actual, passed |-> FALSE, error |-> Str(r.e)])
            ELSE Ret(r.b, [type |-> "condition", field |-> field,
                           operator |-> operator_normalized, expected |-> expected,
                           actual |-> actual, passed |-> r.b])
        \* lines 340-357: the registry lookup
        Lookup(field, operator, operator_normalized, expected, actual) ==
            IF ~(Truthy(operator_normalized) /\ operator_normalized.s \in OPS)
            THEN Ret(FALSE, [type |-> "condition", field |-> field,
                             operator |-> operator,
                             operator_normalized |-> operator_normalized,
                             expected |-> expected, actual |-> actual,
                             passed |-> FALSE, error |-> Str("unknown_operator")])
            ELSE Called(field, operator_normalized, expected, actual,
                        ApplyOp(operator_normalized.s, actual, expected))
        \* lines 337-338: the field lookup, which may raise
        Fetched(field, operator, operator_normalized, expected, got) ==
            IF ~got.ok THEN Raise(got.exc)
            ELSE Lookup(field, operator, operator_normalized, expected, got.v)
        \* lines 333-335
        Normalized(field, operator, expected) ==
            Fetched(field, operator,
                    IF Truthy(operator) THEN Str(_normalize_operator(operator)) ELSE Null,
                    expected,
                    IF Truthy(field) THEN _get_nested_value(user, field)
                    ELSE [ok |-> TRUE, v |-> Null])
        \* lines 324-331
        Found(field, operator, expected) ==
            IF IsNull(field) /\ IsNull(operator) /\ IsNull(expected)
            THEN _evaluate_implicit_conditions(user, rule)
            ELSE Normalized(field,
                            IF Truthy(field) /\ ~IsNull(expected) /\ IsNull(operator)
                            THEN Str("==") ELSE operator,
                            expected)
    IN Found(_find_key_value(rule, FIELD_KEYS), _find_key_value(rule, OP_KEYS),
             _find_key_value(rule, VALUE_KEYS))

\* what "for condition in conditions" iterates over; [ok |-> FALSE] when
\* conditions is not iterable
Iterate(conditions) ==
    CASE conditions.t = "list" -> [ok |-> TRUE, xs |-> conditions.xs]
      [] conditions.t = "dict" ->
            [ok |-> TRUE, xs |-> [i \in 1..Len(conditions.kv) |-> Str(conditions.kv[i][1])]]
      [] conditions.t = "str" ->
            [ok |-> TRUE, xs |-> [i \in 1..Len(conditions.s) |-> Str(Ch(conditions.s, i))]]
      [] OTHER -> [ok |-> FALSE]

\* the index of the first child whose evaluation raised, 0 if none
FirstRaise(outs) ==
    IF \E i \in 1..Len(outs) : ~outs[i].ok
    THEN CHOOSE i \in 1..Len(outs) : ~outs[i].ok /\ \A j \in 1..(i - 1) : outs[j].ok
    ELSE 0

\* the return statement of _evaluate_all_of, given every child's outcome
AllOfResult(outs) ==
    LET all_results == \A i \in 1..Len(outs) : outs[i].passed
    IN Ret(all_results, [type |-> "allOf", passed |-> all_results,
                         conditions |-> [i \in 1..Len(outs) |-> outs[i].details]])

\* _evaluate_any_of returning all(results) where the code returns any(results)
AnyOfResult_All(outs) ==
    LET any_results == \A i \in 1..Len(outs) : outs[i].passed
    IN Ret(any_results, [type |-> "anyOf", passed |-> any_results,
                         conditions |-> [i \in 1..Len(outs) |-> outs[i].details]])

\* the return statement of _evaluate_any_of, given every child's outcome
AnyOfResult(outs) ==
    LET any_results == \E i \in 1..Len(outs) : outs[i].passed
    IN Ret(any_results, [type |-> "anyOf", passed |-> any_results,
                         conditions |-> [i \in 1..Len(outs) |-> outs[i].details]])

\* _evaluate_not negating the passed field of the child's trace (false when
\* the trace has none) where the code negates the child's verdict
NotResult_FromTrace(out) ==
    LET passed == IF "passed" \in DOMAIN out.details THEN out.details.passed ELSE FALSE
    IN Ret(~passed, [type |-> "not", passed |-> ~passed, condition |-> out.details])

\* the return statement of _evaluate_not, given the child's outcome
NotResult(out) ==
    Ret(~out.passed, [type |-> "not", passed |-> ~out.passed, condition |-> out.details])

RECURSIVE evaluate(_, _)

\* the loop with a break after the first child that does not pass
EvaluateChildren_ShortCircuit(user, conditions) ==
    LET Cut(outs, failing) ==
            [ok |-> TRUE,
             outs |-> IF failing = {} THEN outs
                      ELSE SubSeq(outs, 1, CHOOSE i \in failing : \A j \in failing : i <= j)]
        Ended(outs, raised) ==
            IF raised # 0 THEN [ok |-> FALSE, exc |-> outs[raised].exc]
            ELSE Cut(outs, {i \in 1..Len(outs) : ~outs[i].passed})
        Loop(outs) == Ended(outs, FirstRaise(outs))
        Over(it) ==
            IF ~it.ok THEN [ok |-> FALSE, exc |-> "TypeError"]
            ELSE Loop([i \in 1..Len(it.xs) |-> evaluate(user, it.xs[i])])
    IN Over(Iterate(conditions))

\* the loop of _evaluate_all_of / _evaluate_any_of: every child is evaluated
\* in order; a child that raises ends the loop with its exception
EvaluateChildren(user, conditions) ==
    LET Ended(outs, raised) ==
            IF raised # 0 THEN [ok |-> FALSE, exc |-> outs[raised].exc]
            ELSE [ok |-> TRUE, outs |-> outs]
        Loop(outs) == Ended(outs, FirstRaise(outs))
        Over(it) ==
            IF ~it.ok THEN [ok |-> FALSE, exc |-> "TypeError"]
            ELSE Loop([i \in 1..Len(it.xs) |-> evaluate(user, it.xs[i])])
    IN Over(Iterate(conditions))

_evaluate_all_of(user, conditions) ==
    LET Return(c) == IF c.ok THEN AllOfResult(c.outs) ELSE Raise(c.exc)
    IN Return(EvaluateChildren(user, conditions))

_evaluate_any_of(user, conditions) ==
    LET Return(c) == IF c.ok THEN AnyOfResult(c.outs) ELSE Raise(c.exc)
    IN Return(EvaluateChildren(user, conditions))

_evaluate_not(user, condition) ==
    LET Return(out) == IF out.ok THEN NotResult(out) ELSE out
    IN Return(evaluate(user, condition))

\* the match type read from matchType alone
MatchType_CamelOnly(node, default) ==
    Upper(PyStr(GetOr(node, "matchType", Str(default))))

\* str(node.get("matchType", node.get("match_type", default))).upper()
MatchType(node, default) ==
    Upper(PyStr(GetOr(node, "matchType", GetOr(node, "match_type", Str(default)))))

\* evaluate reporting a node that is no dict as a failure
evaluate_NonDictFails(user, node) ==
    IF IsNull(node) THEN Ret(TRUE, [result |-> "empty_node"])
    ELSE IF ~IsDict(node) THEN Ret(FALSE, [result |-> "non_dict_node", value |-> node])
    ELSE IF HasKey(node, "rules") /\ IsList(Get(node, "rules"))
    THEN IF MatchType(node, "ALL") = "ANY"
         THEN _evaluate_any_of(user, Get(node, "rules"))
         ELSE _evaluate_all_of(user, Get(node, "rules"))
    ELSE IF HasKey(node, "conditions") /\ IsList(Get(node, "conditions"))
    THEN IF MatchType(node, "AND") \in {"ANY", "OR"}
         THEN _evaluate_any_of(user, Get(node, "conditions"))
         ELSE _evaluate_all_of(user, Get(node, "conditions"))
    ELSE IF HasKey(node, "condition") THEN evaluate(user, Get(node, "condition"))
    ELSE IF HasKey(node, "allOf") THEN _evaluate_all_of(user, Get(node, "allOf"))
    ELSE IF HasKey(node, "anyOf") THEN _evaluate_any_of(user, Get(node, "anyOf"))
    ELSE IF HasKey(node, "not") THEN _evaluate_not(user, Get(node, "not"))
    ELSE IF HasKey(node, "and") THEN _evaluate_all_of(user, Get(node, "and"))
    ELSE IF HasKey(node, "or") THEN _evaluate_any_of(user, Get(node, "or"))
    ELSE _evaluate_condition(user, node)

evaluate(user, node) ==
    IF IsNull(node) THEN Ret(TRUE, [result |-> "empty_node"])
    ELSE IF ~IsDict(node) THEN Ret(TRUE, [result |-> "non_dict_node", value |-> node])
    ELSE IF HasKey(node, "rules") /\ IsList(Get(node, "rules"))
    THEN IF MatchType(node, "ALL") = "ANY"
         THEN _evaluate_any_of(user, Get(node, "rules"))
         ELSE _evaluate_all_of(user, Get(node, "rules"))
    ELSE IF HasKey(node, "conditions") /\ IsList(Get(node, "conditions"))
    THEN IF MatchType(node, "AND") \in {"ANY", "OR"}
         THEN _evaluate_any_of(user, Get(node, "conditions"))
         ELSE _evaluate_all_of(user, Get(node, "conditions"))
    ELSE IF HasKey(node, "condition") THEN evaluate(user, Get(node, "condition"))
    ELSE IF HasKey(node, "allOf") THEN _evaluate_all_of(user, Get(node, "allOf"))
    ELSE IF HasKey(node, "anyOf") THEN _evaluate_any_of(user, Get(node, "anyOf"))
    ELSE IF HasKey(node, "not") THEN _evaluate_not(user, Get(node, "not"))
    ELSE IF HasKey(node, "and") THEN _evaluate_all_of(user, Get(node, "and"))
    ELSE IF HasKey(node, "or") THEN _evaluate_any_of(user, Get(node, "or"))
    ELSE _evaluate_condition(user, node)

RECURSIVE _collect_failed_conditions(_)
RECURSIVE CollectFromList(_, _)

\* the isinstance(details, list) branch, from item i on
CollectFromList(items, i) ==
    IF i > Len(items) THEN <<>>
    ELSE _collect_failed_conditions(items[i]) \o CollectFromList(items, i + 1)

\* the isinstance(details, dict) branch; every trace is a dict
_collect_failed_conditions(details) ==
    LET has(k) == k \in DOMAIN details
    IN IF has("type") /\ details.type = "condition"
       THEN IF ~(IF has("passed") THEN details.passed ELSE FALSE)
            THEN <<[field |-> IF has("field") THEN details.field ELSE Null,
                    operator |-> IF has("operator") THEN details.operator ELSE Null,
                    expected |-> IF has("expected") THEN details.expected ELSE Null,
                    actual |-> IF has("actual") THEN details.actual ELSE Null,
                    error |-> IF has("error") THEN details.error ELSE Null]>>
            ELSE <<>>
       ELSE (IF has("conditions") THEN CollectFromList(details.conditions, 1) ELSE <<>>)
            \o (IF has("condition") THEN _collect_failed_conditions(details.condition)
                ELSE <<>>)

\* [ok |-> TRUE, v |-> the result dict] or the exception evaluate raised
evaluate_user_against_policy(user_data, policy) ==
    LET Result(out) ==
            IF ~out.ok THEN [ok |-> FALSE, exc |-> out.exc]
            ELSE [ok |-> TRUE,
                  v |-> [user_data |-> user_data, policy |-> policy,
                         passed |-> out.passed, details |-> out.details,
                         failed_conditions |->
                             IF ~out.passed THEN _collect_failed_conditions(out.details)
                             ELSE <<>>]]
    IN Result(evaluate(user_data, policy))


\* the inner loop body with the two indexes written the wrong way round
PairResult_SwappedIndexes(result, user_index, policy_index, ucs, pcs) ==
    LET WithPolicy(r) == IF Len(pcs) > 0 /\ policy_index < Len(pcs)
                         THEN [policy_context |-> pcs[policy_index + 1]] @@ r
                         ELSE r
        WithUser(r) == IF Len(ucs) > 0 /\ user_index < Len(ucs)
                       THEN [user_context |-> ucs[user_index + 1]] @@ r
                       ELSE r
    IN WithPolicy(WithUser([user_index |-> policy_index,
                            policy_index |-> user_index] @@ result))

\* the body of the inner loop: the pair's result with its indexes and, when
\* the context list is non-empty and long enough, its contexts
PairResult(result, user_index, policy_index, ucs, pcs) ==
    LET WithPolicy(r) == IF Len(pcs) > 0 /\ policy_index < Len(pcs)
                         THEN [policy_context |-> pcs[policy_index + 1]] @@ r
                         ELSE r
        WithUser(r) == IF Len(ucs) > 0 /\ user_index < Len(ucs)
                       THEN [user_context |-> ucs[user_index + 1]] @@ r
                       ELSE r
    IN WithPolicy(WithUser([user_index |-> user_index,
                            policy_index |-> policy_index] @@ result))

RECURSIVE BatchLoop(_, _, _, _, _, _, _)
\* the nested loops of evaluate_users_against_policies from (user_index,
\* policy_index) on, acc being the results list so far
BatchLoop(us, ps, ucs, pcs, user_index, policy_index, acc) ==
    IF user_index >= Len(us) THEN [ok |-> TRUE, v |-> acc]
    ELSE IF policy_index >= Len(ps)
    THEN BatchLoop(us, ps, ucs, pcs, user_index + 1, 0, acc)
    ELSE LET Step(r) ==
                 IF ~r.ok THEN [ok |-> FALSE, exc |-> r.exc]
                 ELSE BatchLoop(us, ps, ucs, pcs, user_index, policy_index + 1,
                                Append(acc, PairResult(r.v, user_index, policy_index,
                                                       ucs, pcs)))
         IN Step(evaluate_user_against_policy(us[user_index + 1], ps[policy_index + 1]))

\* [ok |-> TRUE, v |-> results] or the exception a pair raised; a context
\* list that is None is the empty sequence (both are falsy and unused)
evaluate_users_against_policies(us, ps, ucs, pcs) ==
    BatchLoop(us, ps, ucs, pcs, 0, 0, <<>>)

----------------------------------------------------------------------------
(* Settings (core/config.py defaults) and the payload normalizers *)

POLICY_WRAPPER_KEYS == <<"policies", "rules", "checks", "requirements",
                         "constraints", "validations">>
USER_WRAPPER_KEYS == <<"users", "data", "records", "items", "entries", "people">>
USER_LABEL_KEYS == <<"user_id", "id", "email", "username", "name", "first_name",
                     "last_name", "display_name">>
POLICY_LABEL_KEYS == <<"name", "title", "id", "policy", "policy_id",
                       "policy_name", "description">>
ENABLE_HEURISTIC_DETECTION == TRUE
MIN_HEURISTIC_ARRAY_SIZE == 1
max_depth == 3

\* isinstance(value, (str, int, float)); a bool is an int
IsLabelScalar(v) == v.t \in {"str", "num", "bool"}

\* the label as Str(..), or Null for None; data is a dict
_derive_label(data, preferred_keys) ==
    LET First(S) == CHOOSE i \in S : \A j \in S : i <= j
        Item(e) == Str(e[1] \o ": " \o PyStr(e[2]))
        Own(own) == IF own # {} THEN Item(data.kv[First(own)]) ELSE Null
        Preferred(pref) ==
            IF pref # {} THEN Str(PyStr(Get(data, preferred_keys[First(pref)])))
            ELSE Own({i \in 1..Len(data.kv) : IsLabelScalar(data.kv[i][2])})
    IN Preferred({i \in 1..Len(preferred_keys) :
                     IsLabelScalar(GetOr(data, preferred_keys[i], Null))})

RECURSIVE _search_recursive(_, _, _, _, _)
RECURSIVE SearchItems(_, _, _, _, _, _)
\* the for loop of _search_recursive over obj.items(), from item i on
SearchItems(obj, i, depth, path, min_size, maxd) ==
    LET Visit(value, current_path) ==
            IF IsList(value) /\ Len(value.xs) >= min_size
            THEN <<<<current_path, value.xs>>>>
            ELSE IF IsDict(value)
            THEN _search_recursive(value, depth + 1, current_path, min_size, maxd)
            ELSE <<>>
        Item(key, value) ==
            Visit(value, IF path # "" THEN path \o "." \o key ELSE key)
    IN IF i > Len(obj.kv) THEN <<>>
       ELSE Item(obj.kv[i][1], obj.kv[i][2])
            \o SearchItems(obj, i + 1, depth, path, min_size, maxd)

_search_recursive(obj, depth, path, min_size, maxd) ==
    IF ~IsDict(obj) \/ depth > maxd THEN <<>>
    ELSE SearchItems(obj, 1, depth, path, min_size, maxd)

\* max() keeping the last of the longest lists where Python keeps the first
_find_largest_array_LastLongest(data, min_size, maxd) ==
    LET Largest(all_arrays) ==
            IF Len(all_arrays) = 0 THEN <<"", <<>>>>
            ELSE all_arrays[CHOOSE i \in 1..Len(all_arrays) :
                               /\ \A j \in 1..Len(all_arrays) :
                                     Len(all_arrays[j][2]) <= Len(all_arrays[i][2])
                               /\ \A j \in (i + 1)..Len(all_arrays) :
                                     Len(all_arrays[j][2]) < Len(all_arrays[i][2])]
    IN Largest(_search_recursive(data, 0, "", min_size, maxd))

\* <<key_path, array>>; the key path "" stands for None
_find_largest_array(data, min_size, maxd) ==
    LET \* max(all_arrays, key=len): the first of the longest
        Largest(all_arrays) ==
            IF Len(all_arrays) = 0 THEN <<"", <<>>>>
            ELSE all_arrays[CHOOSE i \in 1..Len(all_arrays) :
                               /\ \A j \in 1..Len(all_arrays) :
                                     Len(all_arrays[j][2]) <= Len(all_arrays[i][2])
                               /\ \A j \in 1..(i - 1) :
                                     Len(all_arrays[j][2]) < Len(all_arrays[i][2])]
    IN Largest(_search_recursive(data, 0, "", min_size, maxd))

NoExtra == [x \in {} |-> Null]

\* _append_policy: acc is [policies, contexts]; policy_id is Num(..) or Null
_append_policy(acc, entry, extra, source, policy_id) ==
    LET WithId(context) == IF ~IsNull(policy_id)
                           THEN [policy_id |-> policy_id.n] @@ context
                           ELSE context
        Context(index, label) ==
            extra @@ WithId([label |-> IF Truthy(label) THEN label.s
                                       ELSE "Policy #" \o IntStr(index + 1),
                             source |-> source, index |-> index])
    IN [policies |-> Append(acc.policies, entry),
        contexts |-> Append(acc.contexts,
                            Context(Len(acc.policies),
                                    _derive_label(entry, POLICY_LABEL_KEYS)))]

RECURSIVE AppendDictItems(_, _, _, _, _, _)
\* for position, item in enumerate(xs): if isinstance(item, dict):
\*     _append_policy(item, {**tags, "position": position})
AppendDictItems(acc, xs, position, tags, source, policy_id) ==
    IF position >= Len(xs) THEN acc
    ELSE AppendDictItems(
            IF IsDict(xs[position + 1])
            THEN _append_policy(acc, xs[position + 1],
                                [position |-> position] @@ tags, source, policy_id)
            ELSE acc,
            xs, position + 1, tags, source, policy_id)

\* the wrapper key found by scanning the payload's own keys in their order
FirstWrapperKey_PayloadOrder(payload, wrapper_keys) ==
    LET First(hit) ==
            IF hit = {} THEN "" ELSE payload.kv[CHOOSE i \in hit : \A j \in hit : i <= j][1]
    IN First({i \in 1..Len(payload.kv) :
                 /\ \E k \in 1..Len(wrapper_keys) : wrapper_keys[k] = payload.kv[i][1]
                 /\ IsList(payload.kv[i][2])})

\* the first configured wrapper key present in payload with a list value,
\* "" if there is none
FirstWrapperKey(payload, wrapper_keys) ==
    LET First(hit) ==
            IF hit = {} THEN "" ELSE wrapper_keys[CHOOSE i \in hit : \A j \in hit : i <= j]
    IN First({i \in 1..Len(wrapper_keys) :
                 HasKey(payload, wrapper_keys[i]) /\ IsList(Get(payload, wrapper_keys[i]))})

\* [ok |-> TRUE, policies, contexts] or the ValueError raised
_normalize_policies_from_payload(payload, source, policy_id) ==
    LET empty == [policies |-> <<>>, contexts |-> <<>>]
        Checked(acc) ==
            IF Len(acc.policies) = 0
            THEN [ok |-> FALSE, exc |-> "ValueError",
                  msg |-> "No policy entries found in payload"]
            ELSE [ok |-> TRUE, policies |-> acc.policies, contexts |-> acc.contexts]
        Heuristic(largest) ==
            IF ENABLE_HEURISTIC_DETECTION /\ largest[1] # "" /\ Len(largest[2]) > 0
            THEN AppendDictItems(empty, largest[2], 0,
                                 [section |-> largest[1], detected |-> "heuristic"],
                                 source, policy_id)
            ELSE _append_policy(empty, payload, NoExtra, source, policy_id)
        Wrapped(key) ==
            IF key # ""
            THEN AppendDictItems(empty, Get(payload, key).xs, 0, [section |-> key],
                                 source, policy_id)
            ELSE Heuristic(_find_largest_array(payload, MIN_HEURISTIC_ARRAY_SIZE,
                                               max_depth))
    IN IF IsList(payload)
       THEN Checked(AppendDictItems(empty, payload.xs, 0, NoExtra, source, policy_id))
       ELSE IF IsDict(payload)
       THEN Checked(Wrapped(FirstWrapperKey(payload, POLICY_WRAPPER_KEYS)))
       ELSE [ok |-> FALSE, exc |-> "ValueError",
             msg |-> "Policy file must contain object or array"]

\* FileParser.normalize_to_list: the list of user entries; it never raises
normalize_to_list(data) ==
    LET Heuristic(largest) ==
            IF ENABLE_HEURISTIC_DETECTION /\ largest[1] # "" /\ Len(largest[2]) > 0
            THEN largest[2]
            ELSE <<data>>
        Wrapped(key) ==
            IF key # "" THEN Get(data, key).xs
            ELSE Heuristic(_find_largest_array(data, MIN_HEURISTIC_ARRAY_SIZE, max_depth))
    IN IF IsList(data) THEN data.xs
       ELSE IF IsDict(data) THEN Wrapped(FirstWrapperKey(data, USER_WRAPPER_KEYS))
       ELSE <<Dict(<<<<"value", data>>>>)>>

\* [ok |-> TRUE, v |-> contexts], or AttributeError when a user is no dict
\* (data.get in _derive_label)
_build_user_contexts_from_file(us, source) ==
    LET Context(i, label) ==
            [label |-> IF Truthy(label) THEN label.s ELSE "User #" \o IntStr(i),
             source |-> source, index |-> i - 1]
    IN IF \E i \in 1..Len(us) : ~IsDict(us[i])
       THEN [ok |-> FALSE, exc |-> "AttributeError"]
       ELSE [ok |-> TRUE,
             v |-> [i \in 1..Len(us) |-> Context(i, _derive_label(us[i], USER_LABEL_KEYS))]]

----------------------------------------------------------------------------
(* The request handlers of api/routes.py.  A handler's outcome is the record *)
(* of what the request left behind.                                          *)

Outcome(status, us, ps, ucs, pcs, res, rows, failed, called) ==
    [response |-> status, users |-> us, policies |-> ps, user_contexts |-> ucs,
     policy_contexts |-> pcs, results |-> res, stored |-> rows,
     norm_failed |-> failed, evaluated |-> called]

\* the EvaluationResult row db.add()ed for one result
StoredRow(result) ==
    [user_data |-> result.user_data, policy_data |-> result.policy,
     passed |-> IF result.passed THEN "True" ELSE "False",
     details |-> [evaluation |-> result.details,
                  failed_conditions |-> result.failed_conditions,
                  user_context |-> IF "user_context" \in DOMAIN result
                                   THEN result.user_context ELSE Null,
                  policy_context |-> IF "policy_context" \in DOMAIN result
                                     THEN result.policy_context ELSE Null]]

StoredRows(res) == [i \in 1..Len(res) |-> StoredRow(res[i])]

\* POST /evaluate.  users_file is [filename, raw], raw being the decoded
\* JSON document, or the rows parse_csv returned for a .csv file;
\* policies_file is [name, raw].
route_evaluate(users_file, policies_file) ==
    LET user_source == IF users_file.filename # "" THEN users_file.filename
                       ELSE "Uploaded Users"
        policy_source == IF policies_file.name # "" THEN policies_file.name
                         ELSE "Uploaded Policies"
        Stored(us, ucs, ps, pcs, batch) ==
            IF ~batch.ok
            THEN Outcome(500, us, ps, ucs, pcs, <<>>, <<>>, FALSE, TRUE)
            ELSE Outcome(200, us, ps, ucs, pcs, batch.v, StoredRows(batch.v), FALSE, TRUE)
        Normalized(us, ucs, norm) ==
            IF ~norm.ok
            THEN Outcome(400, us, <<>>, ucs, <<>>, <<>>, <<>>, TRUE, FALSE)
            ELSE Stored(us, ucs, norm.policies, norm.contexts,
                        evaluate_users_against_policies(us, norm.policies, ucs,
                                                        norm.contexts))
        Labelled(us, ucs) ==
            IF ~ucs.ok
            THEN Outcome(500, us, <<>>, <<>>, <<>>, <<>>, <<>>, FALSE, FALSE)
            ELSE Normalized(us, ucs.v,
                            _normalize_policies_from_payload(policies_file.raw,
                                                             policy_source, Null))
        Parsed(us) == Labelled(us, _build_user_contexts_from_file(us, user_source))
    IN IF EndsWith(users_file.filename, ".csv") THEN Parsed(users_file.raw.xs)
       ELSE IF EndsWith(users_file.filename, ".json")
       THEN Parsed(normalize_to_list(users_file.raw))
       ELSE Outcome(400, <<>>, <<>>, <<>>, <<>>, <<>>, <<>>, FALSE, FALSE)

\* _append_user: acc is [users, contexts, user_global_index]; position is
\* Num(..) or Null; filename is the value raw.get("filename") gave, or Null
_append_user(acc, entry, position, record_id, source_label, filename) ==
    LET WithFilename(context) == IF Truthy(filename)
                                 THEN [filename |-> PyStr(filename)] @@ context
                                 ELSE context
        WithPosition(context) == IF ~IsNull(position)
                                 THEN [record_position |-> position.n] @@ context
                                 ELSE context
        Context(label) ==
            WithFilename(WithPosition(
                [label |-> IF Truthy(label) THEN label.s
                           ELSE "User #" \o IntStr(acc.user_global_index + 1),
                 source |-> source_label, index |-> acc.user_global_index,
                 record_id |-> record_id]))
    IN [users |-> Append(acc.users, entry),
        contexts |-> Append(acc.contexts, Context(_derive_label(entry, USER_LABEL_KEYS))),
        user_global_index |-> acc.user_global_index + 1]

RECURSIVE AppendUserItems(_, _, _, _, _, _)
\* for position, entry in enumerate(xs): if isinstance(entry, dict):
\*     _append_user(entry, position=position)
AppendUserItems(acc, xs, position, record_id, source_label, filename) ==
    IF position >= Len(xs) THEN acc
    ELSE AppendUserItems(
            IF IsDict(xs[position + 1])
            THEN _append_user(acc, xs[position + 1], Num(position), record_id,
                              source_label, filename)
            ELSE acc,
            xs, position + 1, record_id, source_label, filename)

\* the body of "for record in user_records" for one record
SelectUsersOf(acc, record) ==
    LET Heuristic(raw, source_label, filename, largest) ==
            IF ENABLE_HEURISTIC_DETECTION /\ largest[1] # "" /\ Len(largest[2]) > 0
            THEN AppendUserItems(acc, largest[2], 0, record.id, source_label, filename)
            ELSE _append_user(acc, raw, Null, record.id, source_label, filename)
        Wrapped(raw, source_label, filename, key) ==
            IF key # ""
            THEN AppendUserItems(acc, Get(raw, key).xs, 0, record.id, source_label,
                                 filename)
            ELSE Heuristic(raw, source_label, filename,
                           _find_largest_array(raw, MIN_HEURISTIC_ARRAY_SIZE, max_depth))
        Labelled(raw, source_label, filename) ==
            IF IsDict(raw)
            THEN Wrapped(raw, source_label, filename,
                         FirstWrapperKey(raw, USER_WRAPPER_KEYS))
            ELSE IF IsList(raw)
            THEN AppendUserItems(acc, raw.xs, 0, record.id, source_label, filename)
            ELSE acc
        Named(raw, filename) ==
            Labelled(raw,
                     IF Truthy(filename) THEN PyStr(filename)
                     ELSE "UserData #" \o IntStr(record.id),
                     filename)
        Raw(raw) == Named(raw, IF IsDict(raw) THEN GetOr(raw, "filename", Null) ELSE Null)
    IN Raw(IF Truthy(record.raw) THEN record.raw ELSE Dict(<<>>))

RECURSIVE SelectUsers(_, _, _)
SelectUsers(acc, records, i) ==
    IF i > Len(records) THEN acc
    ELSE SelectUsers(SelectUsersOf(acc, records[i]), records, i + 1)

\* the body of the loop without the index_offset added to the contexts
SelectPoliciesOf_NoOffset(acc, p) ==
    LET Extend(norm) ==
            IF ~norm.ok
            THEN [acc EXCEPT !.failed = TRUE]
            ELSE [acc EXCEPT !.policies = @ \o norm.policies,
                             !.policy_contexts = @ \o norm.contexts]
    IN Extend(_normalize_policies_from_payload(
                 p.raw, IF p.name # "" THEN p.name ELSE "Policy #" \o IntStr(p.id),
                 Num(p.id)))

\* the body of "for p in policy_records" for one record; acc is
\* [policies, policy_contexts, failed]
SelectPoliciesOf(acc, p) ==
    LET Shifted(contexts, index_offset) ==
            [i \in 1..Len(contexts) |->
                [contexts[i] EXCEPT !.index = @ + index_offset]]
        Extend(norm) ==
            IF ~norm.ok
            THEN [acc EXCEPT !.failed = TRUE]
            ELSE [acc EXCEPT !.policies = @ \o norm.policies,
                             !.policy_contexts =
                                 @ \o Shifted(norm.contexts, Len(acc.policies))]
    IN Extend(_normalize_policies_from_payload(
                 p.raw, IF p.name # "" THEN p.name ELSE "Policy #" \o IntStr(p.id),
                 Num(p.id)))

RECURSIVE SelectPolicies(_, _, _)
SelectPolicies(acc, records, i) ==
    IF i > Len(records) THEN acc
    ELSE SelectPolicies(SelectPoliciesOf(acc, records[i]), records, i + 1)

\* POST /evaluate/selection, from the rows the two queries returned:
\* user rows are [id, raw], policy rows are [id, name, raw]
evaluate_by_selection(urs, prs) ==
    LET Stored(u, p, batch) ==
            IF ~batch.ok
            THEN Outcome(500, u.users, p.policies, u.contexts, p.policy_contexts,
                         <<>>, <<>>, p.failed, TRUE)
            ELSE Outcome(200, u.users, p.policies, u.contexts, p.policy_contexts,
                         batch.v, StoredRows(batch.v), p.failed, TRUE)
        Normalized(u, p) ==
            IF Len(u.users) = 0 \/ Len(p.policies) = 0
            THEN Outcome(400, u.users, p.policies, u.contexts, p.policy_contexts,
                         <<>>, <<>>, p.failed, FALSE)
            ELSE Stored(u, p, evaluate_users_against_policies(
                                 u.users, p.policies, u.contexts, p.policy_contexts))
        Aggregated(u) ==
            IF Len(prs) = 0
            THEN Outcome(404, u.users, <<>>, u.contexts, <<>>, <<>>, <<>>, FALSE, FALSE)
            ELSE Normalized(u, SelectPolicies([policies |-> <<>>,
                                               policy_contexts |-> <<>>,
                                               failed |-> FALSE], prs, 1))
    IN IF Len(urs) = 0
       THEN Outcome(404, <<>>, <<>>, <<>>, <<>>, <<>>, <<>>, FALSE, FALSE)
       ELSE Aggregated(SelectUsers([users |-> <<>>, contexts |-> <<>>,
                                    user_global_index |-> 0], urs, 1))

----------------------------------------------------------------------------
(* Bounded inputs *)

MaxNodes == 4          \* nodes of a generated policy tree
MaxUsers == 2          \* users of a generated batch
MaxPolicies == 2       \* policies of a generated batch
MaxUserRecords == 2    \* user rows selected by one /evaluate/selection request
MaxPolicyRecords == 2  \* policy rows selected by one /evaluate/selection request

\* all sequences over S of length 0..n
SeqsUpTo(S, n) == UNION {[1..k -> S] : k \in 0..n}

Leaf(f, op, v) == Dict(<<<<"field", f>>, <<"operator", op>>, <<"value", v>>>>)
AllOf(xs) == Dict(<<<<"allOf", List(xs)>>>>)
AnyOf(xs) == Dict(<<<<"anyOf", List(xs)>>>>)
NotOf(x) == Dict(<<<<"not", x>>>>)

\* the users of src/test_evaluator.py
TestUser == Dict(<<<<"user_id", Str("test001")>>, <<"password_length", Num(12)>>,
                   <<"mfa_enabled", Bool(TRUE)>>, <<"role", Str("admin")>>,
                   <<"account_age_days", Num(45)>>>>)
FailingUser == Dict(<<<<"user_id", Str("test002")>>, <<"password_length", Num(6)>>,
                      <<"mfa_enabled", Bool(FALSE)>>>>)
\* the policy of src/test_evaluator.py
TestPolicy == AllOf(<<Leaf(Str("password_length"), Str(">="), Num(8)),
                      Leaf(Str("mfa_enabled"), Str("=="), Bool(TRUE))>>)

Absent == [t |-> "absent"]
Entry(k, v) == IF v = Absent THEN <<>> ELSE <<<<k, v>>>>

\* a user with the given password_length and mfa_enabled (Absent: no key)
UserOf(pl, mfa) ==
    Dict(Entry("password_length", pl) \o Entry("mfa_enabled", mfa)
         \o <<<<"role", Str("admin")>>,
              <<"profile", Dict(<<<<"city", Str("Rome")>>>>)>>>>)

PasswordLengths == {Absent, Null, Num(6), Num(8), Num(12), Str("12"), Str("abc")}
MfaValues == {Absent, Bool(TRUE), Bool(FALSE), Num(1)}

RecordPool == {TestUser, FailingUser}
              \cup {UserOf(pl, mfa) : pl \in PasswordLengths, mfa \in MfaValues}

CoreRecords == {TestUser, FailingUser, UserOf(Num(12), Bool(FALSE))}

LeafFields == {Str("password_length"), Str("role"), Str("profile.city"), Str("missing")}
OpSpellings == {Str(o) : o \in OPS} \cup {Str("at_least"), Str(" Greater Than "),
                                          Str("frobnicate")}
                  \cup {Str("AT_LEAST"), Str("at least"), Str(" At Least ")}
LeafValues == {Num(8), Str("admin"), Str("("), Str("Rome,admin"),
               List(<<Str("admin"), Num(12)>>), Null}

\* policy nodes that are no mapping: a string, a boolean, a list, a number
NonMappingNodes == {Str("x"), Bool(FALSE), List(<<TestPolicy>>), Num(0)}
\* the same kinds, and null, as the children of one combinator
NonMappingChildren == <<Null, Str("x"), Bool(FALSE), List(<<>>), Num(0)>>

\* nodes holding two combinator keys, over a rule every pooled record with
\* a role passes and a rule every record fails
MixedCombinators ==
    LET holds == List(<<Leaf(Str("role"), Str("=="), Str("admin"))>>)
        fails == List(<<Leaf(Str("missing"), Str("=="), Num(8))>>)
    IN {Dict(<<<<"and", holds>>, <<"anyOf", fails>>>>),
        Dict(<<<<"anyOf", holds>>, <<"and", fails>>>>),
        Dict(<<<<"and", holds>>, <<"not", holds.xs[1]>>>>),
        Dict(<<<<"not", fails.xs[1]>>, <<"or", fails>>>>),
        Dict(<<<<"anyOf", holds>>, <<"allOf", fails>>>>),
        Dict(<<<<"not", holds.xs[1]>>, <<"anyOf", holds>>>>),
        Dict(<<<<"or", holds>>, <<"allOf", fails>>>>)}

\* wrapper shapes next to other keys: rules or conditions with either
\* spelling of the match type, beside a combinator key or beside each other
WrapperNodes ==
    LET holds == Leaf(Str("role"), Str("=="), Str("admin"))
        fails == Leaf(Str("missing"), Str("=="), Num(8))
        both == List(<<holds, fails>>)
    IN {Dict(<<<<"rules", both>>, <<"matchType", Str("OR")>>,
               <<"anyOf", List(<<holds>>)>>>>),
        Dict(<<<<"anyOf", List(<<fails>>)>>, <<"rules", both>>,
               <<"match_type", Str("any")>>>>),
        Dict(<<<<"rules", both>>, <<"match_type", Str("ANY")>>,
               <<"matchType", Str("ALL")>>>>),
        Dict(<<<<"matchType", Null>>, <<"rules", List(<<holds>>)>>>>),
        Dict(<<<<"rules", Num(5)>>, <<"conditions", both>>, <<"matchType", Str("or")>>>>),
        Dict(<<<<"conditions", List(<<fails>>)>>, <<"rules", both>>,
               <<"match_type", Str("ANY")>>>>),
        Dict(<<<<"not", holds>>, <<"conditions", both>>>>),
        Dict(<<<<"conditions", both>>, <<"matchType", Str("ANY")>>,
               <<"allOf", List(<<fails>>)>>>>),
        Dict(<<<<"allOf", List(<<fails>>)>>, <<"condition", holds>>>>),
        Dict(<<<<"condition", AnyOf(<<fails, holds>>)>>, <<"conditions", Num(5)>>,
               <<"not", holds>>>>)}

LeafPool ==
    {Leaf(f, op, v) : f \in LeafFields, op \in OpSpellings, v \in LeafValues}
    \cup {Dict(<<<<"field", Str("role")>>, <<"value", Str("admin")>>>>),
          Dict(<<<<"field", Num(5)>>, <<"operator", Str("==")>>, <<"value", Num(5)>>>>),
          Dict(<<<<"field", List(<<Str("role")>>)>>, <<"value", Num(5)>>>>),
          Dict(<<<<"role", Str("admin")>>, <<"password_length", Num(12)>>>>),
          Dict(<<<<"name", Str("MFA required")>>, <<"mfa_enabled", Bool(TRUE)>>>>),
          Dict(<<<<"description", Str("only metadata")>>>>),
          Dict(<<<<"allOf", Num(5)>>>>),
          Null, Num(7), TestPolicy}
    \* rules with no operator key: synonyms of field and value, two of each
    \* in an order other than that of the key lists, a null value, an empty
    \* field, a value key that is also an alias, an operator key holding null
    \cup {Dict(<<<<"attribute", Str("role")>>, <<"expected", Str("admin")>>>>),
          Dict(<<<<"expected", Str("admin")>>, <<"value", Str("x")>>,
                 <<"attribute", Str("role")>>, <<"field", Str("missing")>>>>),
          Dict(<<<<"key", Str("password_length")>>, <<"threshold", Num(12)>>>>),
          Dict(<<<<"property", Str("profile.city")>>, <<"target", Str("Rome")>>>>),
          Dict(<<<<"minimum", Num(8)>>, <<"field", Str("password_length")>>>>),
          Dict(<<<<"field", Str("mfa_enabled")>>, <<"value", Num(0)>>>>),
          Dict(<<<<"field", Str("role")>>, <<"value", Null>>>>),
          Dict(<<<<"field", Str("missing")>>, <<"value", Null>>>>),
          Dict(<<<<"field", Str("")>>, <<"value", Str("admin")>>>>),
          Dict(<<<<"field", Str("role")>>, <<"op", Null>>, <<"value", Str("admin")>>>>)}
    \* rules with a field key and no operator or value key: the field a
    \* path the records hold, an empty string, a number
    \cup {Dict(<<<<"title", Str("admins")>>, <<"key", Str("role")>>,
                 <<"role", Str("admin")>>>>),
          Dict(<<<<"name", Str("")>>, <<"mfa_enabled", Bool(TRUE)>>>>),
          Dict(<<<<"name", Num(5)>>, <<"mfa_enabled", Bool(TRUE)>>>>)}
    \* operator names that are neither canonical nor an alias, and operators
    \* that are blank, empty or no string
    \cup {Leaf(Str("role"), Str(" Frob Nicate "), Str("admin")),
          Leaf(Str("missing"), Str("__import__('os')"), Num(1)),
          Leaf(Str("role"), Str("=>"), Str("admin")),
          Leaf(Str("role"), Str(" "), Str("admin")),
          Leaf(Str("role"), Str(""), Str("admin")),
          Leaf(Str("role"), Num(5), Str("admin"))}
    \cup NonMappingNodes \cup MixedCombinators \cup WrapperNodes
    \cup {AllOf(SubSeq(NonMappingChildren, 1, n)) : n \in 1..Len(NonMappingChildren)}
    \cup {AnyOf(<<Leaf(Str("missing"), Str("=="), Num(8)), NonMappingChildren[i]>>) :
             i \in 1..Len(NonMappingChildren)}

\* the children generated trees are built from: a passing-or-failing
\* comparison, an equality, a comparison whose coercion fails, a non-dict node
CoreLeaves == {Leaf(Str("password_length"), Str(">="), Num(8)),
               Leaf(Str("mfa_enabled"), Str("=="), Bool(TRUE)),
               Leaf(Str("role"), Str(">"), Num(1)),
               Num(7)}

RECURSIVE TreeSet(_)
RECURSIVE ForestSet(_)
\* the lists of trees with n nodes in all
ForestSet(n) ==
    IF n = 0 THEN {<<>>}
    ELSE UNION {{<<t>> \o f : t \in TreeSet(k), f \in ForestSet(n - k)} : k \in 1..n}
\* the policy trees with exactly n nodes
TreeSet(n) ==
    (IF n = 1 THEN CoreLeaves ELSE {NotOf(t) : t \in TreeSet(n - 1)})
    \cup {AllOf(f) : f \in ForestSet(n - 1)}
    \cup {AnyOf(f) : f \in ForestSet(n - 1)}

MatchTypes == {Absent, Str("ANY"), Str("or"), Str("ALL")}

\* the other spellings of a combinator over the list f
Spellings(f) ==
    {Dict(<<<<"and", List(f)>>>>), Dict(<<<<"or", List(f)>>>>)}
    \cup {Dict(Entry("matchType", m) \o <<<<"rules", List(f)>>>>) : m \in MatchTypes}
    \cup {Dict(<<<<"conditions", List(f)>>>> \o Entry("match_type", m)) : m \in MatchTypes}

TreePool ==
    UNION {TreeSet(n) : n \in 1..MaxNodes}
    \cup UNION {UNION {Spellings(f) : f \in ForestSet(n)} : n \in 0..(MaxNodes - 2)}
    \cup {Dict(<<<<"condition", t>>>>) : t \in TreeSet(2)}

\* records with or without an age and a status
AgeStatusRecords ==
    {Dict(Entry("age", a) \o Entry("status", st)) :
        a \in {Absent, Null, Num(18), Num(17), Str("18")},
        st \in {Absent, Str("active"), Str("inactive")}}
\* {age: 18, status: active} and the allOf of the two equality rules
ImplicitPolicy == Dict(<<<<"age", Num(18)>>, <<"status", Str("active")>>>>)
ExplicitPolicy ==
    AllOf(<<Dict(<<<<"field", Str("age")>>, <<"op", Str("==")>>, <<"value", Num(18)>>>>),
            Dict(<<<<"field", Str("status")>>, <<"op", Str("==")>>,
                   <<"value", Str("active")>>>>)>>)

\* rules with none of the field, operator and value keys: metadata keys
\* among the checked ones, the checked keys in another order, metadata keys
\* only, and no key at all
ImplicitRules ==
    {Dict(<<<<"description", Str("adults")>>, <<"age", Num(18)>>, <<"title", Str("t")>>,
            <<"status", Str("active")>>>>),
     Dict(<<<<"status", Str("inactive")>>, <<"rule_id", Num(3)>>, <<"age", Num(17)>>>>),
     Dict(<<<<"id", Num(1)>>, <<"policy_id", Num(2)>>, <<"rule_id", Num(3)>>,
            <<"validation_name", Str("v")>>, <<"title", Str("t")>>,
            <<"description", Str("d")>>>>),
     Dict(<<>>)}

\* records with a created field and ordering rules on it: timestamps with a
\* trailing Z, with an offset, with none, a date, and values that are none
TimestampRecords ==
    {Dict(<<<<"created", v>>>>) :
        v \in {Str("2024-01-01T00:00:00Z"), Str("2024-01-01T00:00:00"),
               Str("2023-06-01T12:00:00+02:00"), Str("2023-01-01"), Str("soon"),
               Str("5"), Num(5)}}
TimestampRules ==
    {Leaf(Str("created"), Str(op), v) :
        op \in {">", "<", ">=", "<="},
        v \in {Str("2023-01-01T00:00:00"), Str("2023-01-01T00:00:00Z"),
               Str("2023-06-01T11:00:00+01:00"), Num(3), Str("later")}}

\* records with a key that contains dots beside the nested value of the same
\* path, with null under such a key, with the empty key, and with a string
\* or a list where the path expects a mapping
ResolverRecords ==
    LET profile == Dict(<<<<"city", Str("Rome")>>, <<"geo", Dict(<<<<"lat", Num(45)>>>>)>>,
                          <<"", Str("blank")>>>>)
    IN {Dict(<<<<"profile.city", Str("Milan")>>, <<"profile", profile>>,
               <<"role", Str("admin")>>, <<"", Num(1)>>>>),
        Dict(<<<<"profile", profile>>, <<"profile.geo.lat", Null>>,
               <<"tags", List(<<Str("a")>>)>>, <<"zero", Num(0)>>,
               <<"empty", Str("")>>, <<"off", Bool(FALSE)>>>>),
        Dict(<<<<"profile", Str("city")>>, <<"role", Dict(<<>>)>>>>),
        Dict(<<<<"profile", List(<<profile>>)>>, <<"role", Null>>>>)}
\* rules that read a path: with an operator, with the default one, with a
\* null field, and as implicit key/value pairs
ResolverRules ==
    LET paths == {"profile.city", "profile.geo.lat", "profile", "profile.geo",
                  "profile.", ".profile", "profile..city", "role.x", "tags.0",
                  "zero", "empty", "off", "missing.city", "city"}
    IN {Leaf(Str(path), Str("exists"), Null) : path \in paths}
       \cup {Dict(<<<<"field", Str(path)>>, <<"value", Str("Rome")>>>>) : path \in paths}
       \cup {Dict(<<<<"field", Null>>, <<"operator", Str("not_exists")>>>>),
             Dict(<<<<"field", Str("")>>, <<"operator", Str("exists")>>>>),
             Dict(<<<<"profile.city", Str("Milan")>>, <<"profile.geo.lat", Num(45)>>>>),
             Dict(<<<<"", Num(1)>>, <<"profile.", Str("blank")>>>>),
             Dict(<<<<"profile.geo.lat", Null>>, <<"role.x", Null>>,
                    <<"profile", Str("city")>>>>)}

\* the policies of a generated batch; the last one raises re.error on a
\* user with a role
BatchPolicies == {TestPolicy, NotOf(Leaf(Str("mfa_enabled"), Str("=="), Bool(TRUE))),
                  Leaf(Str("role"), Str("frobnicate"), Num(1)),
                  Leaf(Str("role"), Str("regex"), Str("("))}

ContextsFor(prefix, n) == [i \in 1..n |-> [label |-> prefix \o IntStr(i),
                                           source |-> "batch", index |-> i - 1]]

\* None (or empty), one context per entry, or a list one too short
ContextChoices(prefix, n) ==
    {<<>>, ContextsFor(prefix, n)} \cup (IF n > 0 THEN {ContextsFor(prefix, n - 1)} ELSE {})


\* decoded user documents of an upload
UserPayloads ==
    {List(<<TestUser, FailingUser>>),
     Dict(<<<<"users", List(<<TestUser>>)>>>>),
     Dict(<<<<"users", List(<<>>)>>>>),
     List(<<>>),
     Dict(<<<<"team", Dict(<<<<"members", List(<<TestUser, FailingUser>>)>>>>)>>>>),
     TestUser,
     Num(5),
     List(<<TestUser, Num(5)>>),
     \* entries labelled by a preferred key that is not their first key, by
     \* their first scalar pair, by nothing, and entries whose only scalar
     \* is a boolean or whose preferred key holds the empty string
     List(<<Dict(<<<<"name", Str("Ann")>>, <<"user_id", Num(5)>>>>),
            Dict(<<<<"profile", Dict(<<<<"city", Str("Rome")>>>>)>>, <<"age", Num(30)>>,
                   <<"email", Null>>>>),
            Dict(<<<<"profile", Dict(<<<<"city", Str("Rome")>>>>)>>, <<"tags", List(<<>>)>>>>),
            Dict(<<<<"mfa_enabled", Bool(TRUE)>>>>),
            Dict(<<<<"email", Str("")>>, <<"role", Str("admin")>>>>)>>)}

UsersFiles ==
    {[filename |-> "users.json", raw |-> d] : d \in UserPayloads}
    \cup {[filename |-> "users.csv", raw |-> List(<<TestUser, FailingUser>>)],
          [filename |-> "users.csv", raw |-> List(<<>>)],
          [filename |-> "users.txt", raw |-> List(<<TestUser>>)]}

UnknownOpLeaf == Leaf(Str("role"), Str("frobnicate"), Num(1))
BadRegexLeaf == Leaf(Str("role"), Str("regex"), Str("("))

\* policy documents with a configured wrapper key beside another one, beside
\* a longer list, or after one whose value is no list
WrappedPolicyPayloads ==
    {Dict(<<<<"rules", List(<<UnknownOpLeaf>>)>>,
            <<"policies", List(<<TestPolicy, Num(5), UnknownOpLeaf>>)>>>>),
     Dict(<<<<"archive", List(<<UnknownOpLeaf, UnknownOpLeaf, UnknownOpLeaf>>)>>,
            <<"checks", List(<<TestPolicy>>)>>>>),
     Dict(<<<<"policies", Str("see rules")>>, <<"rules", List(<<Num(5), TestPolicy>>)>>>>)}

\* policy documents that normalize to at least one entry
GoodPolicyPayloads ==
    {List(<<TestPolicy, UnknownOpLeaf>>),
     Dict(<<<<"policies", List(<<TestPolicy>>)>>>>),
     Dict(<<<<"checks", List(<<Dict(<<<<"a", Num(1)>>>>), Dict(<<<<"a", Num(2)>>>>)>>)>>>>),
     UnknownOpLeaf,
     AnyOf(<<Leaf(Str("role"), Str("=="), Str("admin")), UnknownOpLeaf>>),
     List(<<BadRegexLeaf>>),
     List(<<Num(5), TestPolicy, Str("x"), Null, List(<<TestPolicy>>), UnknownOpLeaf>>),
     \* entries labelled by a preferred key that is not their first key, by
     \* their first scalar pair, by nothing, and entries whose only scalar
     \* is a boolean or whose preferred key holds the empty string
     List(<<Dict(<<<<"description", Str("d")>>, <<"title", Str("T")>>,
                   <<"allOf", List(<<>>)>>>>),
            Dict(<<<<"anyOf", List(<<>>)>>, <<"id", Num(7)>>, <<"name", Null>>>>),
            Dict(<<<<"not", TestPolicy>>, <<"severity", Str("high")>>>>),
            TestPolicy,
            Dict(<<<<"mfa_enabled", Bool(TRUE)>>>>),
            Dict(<<<<"title", Str("")>>, <<"role", Str("admin")>>>>)>>)}
    \cup WrappedPolicyPayloads
    \* mappings without a wrapper key: rules in a nested list beside a
    \* shorter one, an empty list only, a list under the empty key
    \cup {Dict(<<<<"meta", Dict(<<<<"tags", List(<<Str("a")>>)>>>>)>>,
                 <<"bundle", Dict(<<<<"items", List(<<TestPolicy, Num(5),
                                                      UnknownOpLeaf>>)>>>>)>>>>),
          Dict(<<<<"field", Str("role")>>, <<"value", Str("admin")>>,
                 <<"extra", List(<<>>)>>>>),
          Dict(<<<<"", List(<<TestPolicy>>)>>>>)}

\* policy documents of the wrong shape or with no entry
BadPolicyPayloads ==
    {Dict(<<<<"policies", List(<<>>)>>>>),
     List(<<>>),
     Num(5),
     Str("policy"),
     Dict(<<<<"meta", Dict(<<<<"x", Num(1)>>>>)>>,
            <<"nested", Dict(<<<<"items", List(<<Num(1), Num(2), Num(3), Num(4)>>)>>>>)>>>>)}

PolicyPayloads == GoodPolicyPayloads \cup BadPolicyPayloads

PoliciesFiles == {[id |-> 0, name |-> n, raw |-> d] :
                    n \in {"policies.json", ""}, d \in PolicyPayloads}

\* mappings searched for their largest list: the lists at the top or under
\* nested mappings, of equal or different lengths, inside a list, and below
\* the depth the search reaches
SearchData ==
    LET Nums(n) == List([i \in 1..n |-> Num(i)])
        One(k, v) == Dict(<<<<k, v>>>>)
    IN {Dict(<<<<"meta", One("x", Num(1))>>, <<"nested", One("items", Nums(4))>>>>),
        Dict(<<<<"a", Nums(2)>>, <<"b", One("c", Nums(2))>>, <<"d", Nums(2)>>>>),
        Dict(<<<<"b", One("c", List(<<TestUser, FailingUser>>))>>, <<"a", Nums(2)>>>>),
        Dict(<<<<"a", Nums(1)>>, <<"b", Nums(3)>>, <<"c", Str("x")>>>>),
        Dict(<<<<"a", List(<<Nums(3)>>)>>, <<"b", Nums(2)>>>>),
        Dict(<<<<"a", Num(1)>>, <<"b", One("c", Null)>>>>),
        Dict(<<<<"a", List(<<>>)>>>>),
        One("a", One("b", One("c", Dict(<<<<"d", One("e", Nums(3))>>,
                                           <<"f", Nums(1)>>>>)))),
        One("a", One("b", One("c", One("d", One("e", Nums(3))))))}
MinSizes == {0, 1, 2, 3}

\* UserData.raw as upload_users stores it
StoredUsers(filename, us) == Dict(<<<<"filename", Str(filename)>>, <<"users", List(us)>>>>)

StoredUserRaws == {StoredUsers("a.json", <<TestUser, FailingUser>>),
                   StoredUsers("b.csv", <<>>),
                   StoredUsers("c.json", <<FailingUser, Num(5)>>)}

StoredPolicyRaws ==
    {List(<<TestPolicy, UnknownOpLeaf>>),
     Dict(<<<<"policies", List(<<TestPolicy>>)>>>>),
     AnyOf(<<Leaf(Str("role"), Str("=="), Str("admin")), UnknownOpLeaf>>),
     List(<<BadRegexLeaf>>),
     Dict(<<<<"policies", List(<<>>)>>>>),
     Num(5)}

\* the rows a query returned, ids in query order
UserRows(raws) == [i \in 1..Len(raws) |-> [id |-> i, raw |-> raws[i]]]
PolicyRows(raws) ==
    [i \in 1..Len(raws) |-> [id |-> i, name |-> "p" \o IntStr(i) \o ".json",
                             raw |-> raws[i]]]

----------------------------------------------------------------------------
(* The state machine: one run is one call of an entry point *)

StartWith(f, urs, prs, us, ps, ucs, pcs, sd) ==
    /\ flow = f
    /\ user_records = urs
    /\ policy_records = prs
    /\ users = us
    /\ policies = ps
    /\ user_contexts = ucs
    /\ policy_contexts = pcs
    /\ results = <<>>
    /\ stored = <<>>
    /\ pc = "ready"
    /\ response = 0
    /\ norm_failed = FALSE
    /\ evaluated = FALSE
    /\ search = sd
    /\ returned = <<"", <<>>>>

\* a run of the evaluator or of a request handler: no search call
Start(f, urs, prs, us, ps, ucs, pcs) ==
    StartWith(f, urs, prs, us, ps, ucs, pcs, [data |-> Null, min_size |-> 0])

Init ==
    \/ \E u \in RecordPool, p \in LeafPool :
          Start("batch", <<>>, <<>>, <<u>>, <<p>>, <<>>, <<>>)
    \/ \E u \in CoreRecords, p \in TreePool :
          Start("batch", <<>>, <<>>, <<u>>, <<p>>, <<>>, <<>>)
    \/ \E us \in SeqsUpTo(CoreRecords, MaxUsers), ps \in SeqsUpTo(BatchPolicies, MaxPolicies) :
          \E ucs \in ContextChoices("u", Len(us)), pcs \in ContextChoices("p", Len(ps)) :
             Start("batch", <<>>, <<>>, us, ps, ucs, pcs)
    \/ \E u \in AgeStatusRecords,
          ps \in SeqsUpTo({ImplicitPolicy, ExplicitPolicy} \cup ImplicitRules,
                          MaxPolicies) :
          Start("batch", <<>>, <<>>, <<u>>, ps, <<>>, <<>>)
    \/ \E u \in TimestampRecords, p \in TimestampRules :
          Start("batch", <<>>, <<>>, <<u>>, <<p>>, <<>>, <<>>)
    \/ \E u \in ResolverRecords, ps \in SeqsUpTo(ResolverRules, 1) :
          Start("batch", <<>>, <<>>, <<u>>, ps, <<>>, <<>>)
    \/ \E d \in SearchData, n \in MinSizes :
          StartWith("search", <<>>, <<>>, <<>>, <<>>, <<>>, <<>>,
                    [data |-> d, min_size |-> n])
    \/ \E uf \in UsersFiles, pf \in PoliciesFiles :
          Start("upload", <<uf>>, <<pf>>, <<>>, <<>>, <<>>, <<>>)
    \/ \E ur \in SeqsUpTo(StoredUserRaws, MaxUserRecords),
          pr \in SeqsUpTo(StoredPolicyRaws, MaxPolicyRecords) :
          Start("selection", UserRows(ur), PolicyRows(pr), <<>>, <<>>, <<>>, <<>>)

\* the batch call, were it to drop the users it has evaluated from the list
\* it was given
EvaluateBatch_Consuming ==
    /\ flow = "batch" /\ pc = "ready"
    /\ LET Returned(r) == /\ results' = IF r.ok THEN r.v ELSE <<>>
                          /\ pc' = IF r.ok THEN "done" ELSE "raised"
       IN Returned(evaluate_users_against_policies(users, policies, user_contexts,
                                                   policy_contexts))
    /\ evaluated' = TRUE
    /\ users' = <<>>
    /\ UNCHANGED <<flow, user_records, policy_records, policies,
                   user_contexts, policy_contexts, stored, response, norm_failed,
                   search, returned>>

\* a direct call of DynamicRuleEvaluator.evaluate_users_against_policies
EvaluateBatch ==
    /\ flow = "batch" /\ pc = "ready"
    /\ LET Returned(r) == /\ results' = IF r.ok THEN r.v ELSE <<>>
                          /\ pc' = IF r.ok THEN "done" ELSE "raised"
       IN Returned(evaluate_users_against_policies(users, policies, user_contexts,
                                                   policy_contexts))
    /\ evaluated' = TRUE
    /\ UNCHANGED <<flow, user_records, policy_records, users, policies,
                   user_contexts, policy_contexts, stored, response, norm_failed,
                   search, returned>>

\* what a request handler leaves behind
Finish(o) ==
    /\ users' = o.users
    /\ policies' = o.policies
    /\ user_contexts' = o.user_contexts
    /\ policy_contexts' = o.policy_contexts
    /\ results' = o.results
    /\ stored' = o.stored
    /\ response' = o.response
    /\ norm_failed' = o.norm_failed
    /\ evaluated' = o.evaluated
    /\ pc' = "done"
    /\ UNCHANGED <<flow, user_records, policy_records, search, returned>>

\* POST /evaluate
RouteEvaluate ==
    /\ flow = "upload" /\ pc = "ready"
    /\ Finish(route_evaluate(user_records[1], policy_records[1]))

\* POST /evaluate/selection
EvaluateBySelection ==
    /\ flow = "selection" /\ pc = "ready"
    /\ Finish(evaluate_by_selection(user_records, policy_records))

\* one call of _find_largest_array
FindLargestArray ==
    /\ flow = "search" /\ pc = "ready"
    /\ returned' = _find_largest_array(search.data, search.min_size, max_depth)
    /\ pc' = "done"
    /\ UNCHANGED <<flow, user_records, policy_records, users, policies,
                   user_contexts, policy_contexts, results, stored, response,
                   norm_failed, evaluated, search>>

Next == EvaluateBatch \/ RouteEvaluate \/ EvaluateBySelection \/ FindLargestArray

Spec == Init /\ [][Next]_vars

----------------------------------------------------------------------------
(* Properties *)

\* the value a record holds under a top-level key, None when it has none
ValueOf(user, key) == IF IsDict(user) THEN GetOr(user, key, Null) ELSE Null

\* C1: the failed_conditions of every result is the empty list exactly when
\* its passed is true.
C1_FailedConditionsEmptyIffPassed ==
    \A i \in 1..Len(results) :
        (results[i].failed_conditions = <<>>) <=> results[i].passed

\* the number v is at least 8: v is an int, or a str spelling one
AtLeast8(v) == /\ ~IsNull(v) /\ v.t # "bool"
               /\ FloatOf(v).ok /\ FloatOf(v).v >= 8

\* v == True in Python: True itself or the int 1
IsTrue(v) == IsNumeric(v) /\ NumOf(v) = 1

\* the <<field, expected, actual>> of each entry of a failed_conditions list
Entries(failed) == [i \in 1..Len(failed) |->
                      <<failed[i].field, failed[i].expected, failed[i].actual>>]

\* C2: for the policy allOf[password_length >= 8, mfa_enabled == true] and
\* any record, passed is true exactly when password_length is at least 8 and
\* mfa_enabled is true, and failed_conditions holds, in order, one entry per
\* failing leaf with that leaf's field, expected value and the record's
\* actual value (none when both hold).
C2_TestPolicyVerdict ==
    \A i \in 1..Len(results) :
        results[i].policy = TestPolicy =>
            LET pl == ValueOf(results[i].user_data, "password_length")
                mfa == ValueOf(results[i].user_data, "mfa_enabled")
            IN /\ results[i].passed = (AtLeast8(pl) /\ IsTrue(mfa))
               /\ Entries(results[i].failed_conditions) =
                     (IF AtLeast8(pl) THEN <<>>
                      ELSE <<<<Str("password_length"), Num(8), pl>>>>)
                     \o (IF IsTrue(mfa) THEN <<>>
                         ELSE <<<<Str("mfa_enabled"), Bool(TRUE), mfa>>>>)

\* C2's case: the failing test user against the test policy, both leaves
\* reported
C2_Witness ==
    /\ pc = "done"
    /\ \E i \in 1..Len(results) :
          /\ results[i].policy = TestPolicy
          /\ results[i].user_data = FailingUser
          /\ ~results[i].passed
          /\ Len(results[i].failed_conditions) = 2

\* evaluate_users_against_policies was called and returned (a handler
\* answers 500 when the call raised)
BatchReturned == pc = "done" /\ evaluated /\ response # 500

\* C3: a batch call that returns gives len(users) * len(policies) results;
\* the k-th (from 0) has user_index k div len(policies) and policy_index
\* k mod len(policies), is what evaluate_user_against_policy gives for that
\* user and that policy alone, and carries the user and policy context at its
\* indexes whenever the context list reaches that far.
C3_BatchIsRecordMajor ==
    BatchReturned =>
        /\ Len(results) = Len(users) * Len(policies)
        /\ \A k \in 1..Len(results) :
              LET ui == (k - 1) \div Len(policies)
                  pi == (k - 1) % Len(policies)
                  CheckPair(r, alone) ==
                      /\ r.user_index = ui /\ r.policy_index = pi
                      /\ alone.ok
                      /\ r.user_data = users[ui + 1] /\ r.policy = policies[pi + 1]
                      /\ r.passed = alone.v.passed
                      /\ r.details = alone.v.details
                      /\ r.failed_conditions = alone.v.failed_conditions
                      /\ ui < Len(user_contexts) =>
                            /\ "user_context" \in DOMAIN r
                            /\ r.user_context = user_contexts[ui + 1]
                      /\ pi < Len(policy_contexts) =>
                            /\ "policy_context" \in DOMAIN r
                            /\ r.policy_context = policy_contexts[pi + 1]
              IN CheckPair(results[k],
                           evaluate_user_against_policy(users[ui + 1], policies[pi + 1]))

\* C3's case: a 2 x 2 batch whose verdicts differ, with a user context per
\* user and a policy context list one entry short
C3_Witness ==
    /\ flow = "batch" /\ pc = "done"
    /\ Len(users) = 2 /\ Len(policies) = 2 /\ Len(results) = 4
    /\ users[1] # users[2] /\ policies[1] # policies[2]
    /\ Len(user_contexts) = 2 /\ Len(policy_contexts) = 1
    /\ results[1].passed /\ ~results[2].passed
    /\ "policy_context" \in DOMAIN results[3]
    /\ "policy_context" \notin DOMAIN results[4]

\* a leaf rule: field (a str), operator and value, nothing else
IsLeafRule(p) ==
    /\ IsDict(p) /\ Keys(p) = <<"field", "operator", "value">>
    /\ IsStr(Get(p, "field")) /\ IsStr(Get(p, "operator"))

\* C4: a batch whose policies are all leaf rules never raises: the call
\* returns a result for every (record, policy) pair, whatever the operator
\* and the operands of each leaf.
C4_LeafEvaluationNeverRaises ==
    (flow = "batch" /\ pc # "ready" /\ \A i \in 1..Len(policies) : IsLeafRule(policies[i]))
        => (pc = "done" /\ Len(results) = Len(users) * Len(policies))

\* C5: an upload whose user document went through normalize_to_list, and
\* whose policy document _normalize_policies_from_payload accepted, has at
\* least one user entry and at least one policy entry.
C5_NormalizationNeverEmpty ==
    (flow = "upload" /\ pc = "done" /\ EndsWith(user_records[1].filename, ".json"))
        => /\ Len(users) > 0
           /\ (response \in {200, 500} /\ evaluated) => Len(policies) > 0

\* C6: a request in which a policy payload failed to normalize answers 400,
\* calls evaluate_users_against_policies for no pair and stores no row.
C6_NormalizationFailureStopsRequest ==
    norm_failed => (response = 400 /\ ~evaluated /\ results = <<>> /\ stored = <<>>)

\* C7: a call of evaluate_users_against_policies leaves the users list, the
\* policies list and both context lists as they were, and every result holds
\* the record and the policy of its pair as they were passed in.
C7_EvaluationIsReadOnly ==
    [][(flow = "batch" /\ pc = "ready") =>
          /\ users' = users /\ policies' = policies
          /\ user_contexts' = user_contexts /\ policy_contexts' = policy_contexts
          /\ \A k \in 1..Len(results') :
                /\ results'[k].user_data = users[results'[k].user_index + 1]
                /\ results'[k].policy = policies[results'[k].policy_index + 1]]_vars

\* C7's case: a returned batch over two users in which a leaf ended in an
\* error
C7_Witness ==
    /\ flow = "batch" /\ pc = "done" /\ Len(users) = 2 /\ Len(results) >= 2
    /\ \E k \in 1..Len(results) :
          /\ "error" \in DOMAIN results[k].details
          /\ results[k].user_data = users[results[k].user_index + 1]

\* the combinator a node is, in the dispatch order of evaluate: its kind
\* ("all", "any", "not"), or "wrap" for a condition wrapper, with the list of
\* its children; "none" for a leaf, a non-dict node or a combinator over
\* something that is no list
CombinatorOf(node) ==
    LET Over(kind, conditions) ==
            IF IsList(conditions) THEN [kind |-> kind, xs |-> conditions.xs]
            ELSE [kind |-> "none"]
    IN IF ~IsDict(node) THEN [kind |-> "none"]
       ELSE IF HasKey(node, "rules") /\ IsList(Get(node, "rules"))
       THEN Over(IF MatchType(node, "ALL") = "ANY" THEN "any" ELSE "all",
                 Get(node, "rules"))
       ELSE IF HasKey(node, "conditions") /\ IsList(Get(node, "conditions"))
       THEN Over(IF MatchType(node, "AND") \in {"ANY", "OR"} THEN "any" ELSE "all",
                 Get(node, "conditions"))
       ELSE IF HasKey(node, "condition")
       THEN [kind |-> "wrap", xs |-> <<Get(node, "condition")>>]
       ELSE IF HasKey(node, "allOf") THEN Over("all", Get(node, "allOf"))
       ELSE IF HasKey(node, "anyOf") THEN Over("any", Get(node, "anyOf"))
       ELSE IF HasKey(node, "not") THEN [kind |-> "not", xs |-> <<Get(node, "not")>>]
       ELSE IF HasKey(node, "and") THEN Over("all", Get(node, "and"))
       ELSE IF HasKey(node, "or") THEN Over("any", Get(node, "or"))
       ELSE [kind |-> "none"]

RECURSIVE VerdictsCompose(_, _, _, _)
\* (passed, details) is what evaluate returned for node; the verdicts of the
\* node's children are what evaluate returns for each of them
VerdictsCompose(user, node, passed, details) ==
    LET Children(c, outs) ==
            /\ "passed" \in DOMAIN details /\ details.passed = passed
            /\ passed = (CASE c.kind = "all" -> \A i \in 1..Len(outs) : outs[i].passed
                           [] c.kind = "any" -> \E i \in 1..Len(outs) : outs[i].passed
                           [] c.kind = "not" -> ~outs[1].passed)
            /\ (c.kind # "not" /\ Len(c.xs) = 0) => details.conditions = <<>>
            /\ \A i \in 1..Len(outs) :
                  VerdictsCompose(user, c.xs[i], outs[i].passed, outs[i].details)
        Check(c) ==
            CASE c.kind = "none" ->
                    ("type" \in DOMAIN details /\ details.type = "condition") =>
                        (details.passed \in BOOLEAN /\ details.passed = passed)
              [] c.kind = "wrap" -> VerdictsCompose(user, c.xs[1], passed, details)
              [] OTHER -> Children(c, [i \in 1..Len(c.xs) |-> evaluate(user, c.xs[i])])
    IN Check(CombinatorOf(node))

\* C9: in every returned evaluation and at every depth, a combinator's
\* verdict is the passed of its trace and is the AND (allOf, and, rules), the
\* OR (anyOf, or) or the negation (not) of the verdicts of its children, an
\* empty list giving true, respectively false, with an empty conditions
\* list; a trace of type condition has a Boolean passed equal to the leaf's
\* verdict.
C9_VerdictsCompose ==
    \A i \in 1..Len(results) :
        VerdictsCompose(results[i].user_data, results[i].policy,
                        results[i].passed, results[i].details)

\* C9's case: an OR over the empty list, and a negation inside an AND
C9_Witness ==
    /\ pc = "done" /\ Len(results) = 1
    /\ \/ /\ results[1].policy = AnyOf(<<>>)
          /\ ~results[1].passed /\ results[1].details.conditions = <<>>
       \/ /\ CombinatorOf(results[1].policy).kind = "all"
          /\ Len(CombinatorOf(results[1].policy).xs) = 2
          /\ CombinatorOf(CombinatorOf(results[1].policy).xs[2]).kind = "not"
          /\ "passed" \in DOMAIN results[1].details.conditions[1]
          /\ ~results[1].details.conditions[1].passed
          /\ results[1].details.conditions[2].passed

RECURSIVE EveryChildTraced(_, _, _)
\* details is the trace evaluate returned for node: at every depth an AND or
\* OR over n children has n child traces, the i-th the trace of child i
EveryChildTraced(user, node, details) ==
    LET Check(c) ==
            CASE c.kind = "none" -> TRUE
              [] c.kind = "wrap" -> EveryChildTraced(user, c.xs[1], details)
              [] c.kind = "not" -> EveryChildTraced(user, c.xs[1], details.condition)
              [] OTHER ->
                    /\ Len(details.conditions) = Len(c.xs)
                    /\ \A i \in 1..Len(c.xs) :
                          /\ details.conditions[i] = evaluate(user, c.xs[i]).details
                          /\ EveryChildTraced(user, c.xs[i], details.conditions[i])
    IN Check(CombinatorOf(node))

\* C10: in every returned evaluation, the conditions list of an AND or OR
\* over n children holds n traces, the i-th being the trace of the i-th
\* child, whatever the verdicts of the children before it.
C10_NoShortCircuit ==
    \A i \in 1..Len(results) :
        EveryChildTraced(results[i].user_data, results[i].policy, results[i].details)

\* C10's case: an AND of two children whose first child fails and whose
\* second child passes, both traced
C10_Witness ==
    /\ pc = "done" /\ Len(results) = 1
    /\ CombinatorOf(results[1].policy).kind = "all"
    /\ Len(CombinatorOf(results[1].policy).xs) = 2
    /\ Len(results[1].details.conditions) = 2
    /\ "passed" \in DOMAIN results[1].details.conditions[1]
    /\ ~results[1].details.conditions[1].passed
    /\ "passed" \in DOMAIN results[1].details.conditions[2]
    /\ results[1].details.conditions[2].passed

\* the trace of a node that is null or no mapping
NonMappingTrace(node) ==
    IF IsNull(node) THEN [result |-> "empty_node"]
    ELSE [result |-> "non_dict_node", value |-> node]

RECURSIVE NonMappingsPass(_, _)
\* details is the trace evaluate returned for node: at every depth a node
\* that is null or no mapping has its own trace and counts as passed in the
\* combinator above it
NonMappingsPass(node, details) ==
    LET Check(c) ==
            CASE c.kind = "none" -> (~IsDict(node) => details = NonMappingTrace(node))
              [] c.kind = "wrap" -> NonMappingsPass(c.xs[1], details)
              [] c.kind = "not" ->
                    /\ NonMappingsPass(c.xs[1], details.condition)
                    /\ ~IsDict(c.xs[1]) => ~details.passed
              [] OTHER ->
                    /\ \A i \in 1..Len(c.xs) :
                          NonMappingsPass(c.xs[i], details.conditions[i])
                    /\ (c.kind = "any" /\ \E i \in 1..Len(c.xs) : ~IsDict(c.xs[i]))
                          => details.passed
                    /\ (c.kind = "all" /\ \A i \in 1..Len(c.xs) : ~IsDict(c.xs[i]))
                          => details.passed
    IN Check(CombinatorOf(node))

\* C11: in every returned evaluation, a policy that is null passes with the
\* trace {result: empty_node}, a policy that is no mapping passes with the
\* trace {result: non_dict_node, value: the node}, neither reports a failed
\* condition, and at every depth of a policy tree such a child has that same
\* trace and counts as a passing child of its combinator.
C11_NonMappingNodesPass ==
    \A i \in 1..Len(results) :
        /\ ~IsDict(results[i].policy) =>
              (results[i].passed /\ results[i].failed_conditions = <<>>)
        /\ NonMappingsPass(results[i].policy, results[i].details)

\* C11's case: an AND whose children are null, a string and a boolean, and
\* a list as the whole policy
C11_Witness ==
    /\ pc = "done" /\ Len(results) = 1
    /\ \/ /\ results[1].policy = AllOf(SubSeq(NonMappingChildren, 1, 3))
          /\ results[1].passed
          /\ results[1].details.conditions[1] = [result |-> "empty_node"]
          /\ results[1].details.conditions[3] =
                [result |-> "non_dict_node", value |-> Bool(FALSE)]
       \/ /\ results[1].policy = List(<<TestPolicy>>)
          /\ results[1].passed

\* the node X when node is exactly {not: {not: X}}
IsDoubleNegation(node) ==
    /\ IsDict(node) /\ Keys(node) = <<"not">>
    /\ IsDict(Get(node, "not")) /\ Keys(Get(node, "not")) = <<"not">>

\* C12: for every returned evaluation of a record against a node X, the
\* node {not: {not: X}} evaluates for that record to the same passed
\* verdict; and every evaluated node of the shape {not: {not: X}} has the
\* verdict X has for that record.
C12_DoubleNegation ==
    \A i \in 1..Len(results) :
        LET Same(out) == out.ok /\ out.passed = results[i].passed
        IN /\ Same(evaluate(results[i].user_data, NotOf(NotOf(results[i].policy))))
           /\ IsDoubleNegation(results[i].policy) =>
                 Same(evaluate(results[i].user_data,
                               Get(Get(results[i].policy, "not"), "not")))

\* C12's case: a double negation was evaluated and failed, over a leaf
\* that fails
C12_Witness ==
    /\ pc = "done" /\ Len(results) = 1
    /\ IsDoubleNegation(results[1].policy)
    /\ IsLeafRule(Get(Get(results[1].policy, "not"), "not"))
    /\ ~results[1].passed
    /\ results[1].details.condition.passed

\* alias spellings of the inputs, each with the canonical operator its
\* alias maps to
AliasSpellings == {<<"at_least", ">=">>, <<"AT_LEAST", ">=">>, <<"at least", ">=">>,
                   <<" At Least ", ">=">>, <<" Greater Than ", ">">>}

\* C13: for every returned evaluation of a leaf rule whose operator is an
\* alias spelling (at_least, in upper case, with a space for the underscore,
\* with surrounding blanks), the verdict and the trace are those of the same
\* rule written with the canonical operator; and for the record, field and
\* value of every evaluated leaf rule, each entry of the alias table
\* evaluates exactly as the canonical operator it maps to.
C13_AliasEquivalence ==
    \A i \in 1..Len(results) :
        IsLeafRule(results[i].policy) =>
            LET user == results[i].user_data
                field == Get(results[i].policy, "field")
                operator == Get(results[i].policy, "operator").s
                value == Get(results[i].policy, "value")
                Same(out) == /\ out.ok /\ out.passed = results[i].passed
                             /\ out.details = results[i].details
            IN /\ \A sp \in AliasSpellings :
                     operator = sp[1] => Same(evaluate(user, Leaf(field, Str(sp[2]), value)))
               /\ operator = "==" =>
                     \A a \in DOMAIN OPERATOR_ALIASES :
                        evaluate(user, Leaf(field, Str(a), value))
                           = evaluate(user, Leaf(field, Str(OPERATOR_ALIASES[a]), value))

\* C13's case: a leaf spelled " At Least " evaluated as >= and passed
C13_Witness ==
    /\ pc = "done" /\ Len(results) = 1
    /\ IsLeafRule(results[1].policy)
    /\ Get(results[1].policy, "operator") = Str(" At Least ")
    /\ results[1].passed
    /\ results[1].details.operator = Str(">=")

\* the field, operator, expected value, actual value and passed flag of
\* each entry of a trace's conditions list
Checks(details) ==
    [k \in 1..Len(details.conditions) |->
        <<details.conditions[k].field, details.conditions[k].operator,
          details.conditions[k].expected, details.conditions[k].actual,
          details.conditions[k].passed>>]

\* C14: whenever one record was evaluated against the implicit policy
\* {age: 18, status: active} and against the allOf of the two explicit
\* equality rules, the two results have the same passed verdict and their
\* traces list, in the same order, two checks with the same field, operator,
\* expected value, actual value and passed flag.
C14_ImplicitEquivalence ==
    \A i, j \in 1..Len(results) :
        (/\ results[i].policy = ImplicitPolicy /\ results[j].policy = ExplicitPolicy
         /\ results[i].user_data = results[j].user_data)
        => /\ results[i].passed = results[j].passed
           /\ results[i].details.passed = results[j].details.passed
           /\ Len(results[i].details.conditions) = 2
           /\ Checks(results[i].details) = Checks(results[j].details)

\* C14's case: a record of age 18 with another status, evaluated against
\* both policies, fails both on the status check alone
C14_Witness ==
    /\ pc = "done" /\ Len(results) = 2
    /\ results[1].policy = ImplicitPolicy /\ results[2].policy = ExplicitPolicy
    /\ ~results[1].passed /\ ~results[2].passed
    /\ results[1].details.conditions[1].passed
    /\ ~results[2].details.conditions[2].passed
    /\ results[2].details.conditions[2].actual = Str("inactive")

\* the combinator keys a node holds
CombinatorKeys(node) ==
    {k \in {"allOf", "and", "anyOf", "or", "not"} : HasKey(node, k)}

\* C15: a returned evaluation of a node that holds two or more combinator
\* keys (and no rules, conditions or condition key) is the evaluation of
\* the AND-combinator over its allOf (else and) list when it has one, else
\* of the OR-combinator over its anyOf (else or) list when it has one, else
\* of the negation of its not node.
C15_CombinatorPriority ==
    \A i \in 1..Len(results) :
        LET node == results[i].policy
            user == results[i].user_data
            Same(out) == /\ out.ok /\ out.passed = results[i].passed
                         /\ out.details = results[i].details
            keys == IF IsDict(node) THEN CombinatorKeys(node) ELSE {}
        IN (/\ Cardinality(keys) >= 2
            /\ ~HasKey(node, "rules") /\ ~HasKey(node, "conditions")
            /\ ~HasKey(node, "condition"))
           => Same(IF "allOf" \in keys THEN _evaluate_all_of(user, Get(node, "allOf"))
                   ELSE IF "and" \in keys THEN _evaluate_all_of(user, Get(node, "and"))
                   ELSE IF "anyOf" \in keys THEN _evaluate_any_of(user, Get(node, "anyOf"))
                   ELSE IF "or" \in keys THEN _evaluate_any_of(user, Get(node, "or"))
                   ELSE _evaluate_not(user, Get(node, "not")))

\* the match type of a wrapper node: what it holds under matchType, else
\* under match_type, else the default, as text and without regard to case
MatchTypeOf(node, default) ==
    LET held == IF HasKey(node, "matchType") THEN Get(node, "matchType")
                ELSE IF HasKey(node, "match_type") THEN Get(node, "match_type")
                ELSE Str(default)
    IN Upper(PyStr(held))

\* C16: a returned evaluation of a node whose rules is a list is that of
\* the OR-combinator over rules when its match type (matchType, else
\* match_type, else ALL) is ANY and that of the AND-combinator otherwise
\* (also for OR); else, of a node whose conditions is a list, that of the
\* OR-combinator over conditions when its match type (default AND) is ANY or
\* OR and that of the AND-combinator otherwise; else, of a node with a
\* condition key, exactly the evaluation of the node under condition;
\* whatever other combinator keys the node holds.
C16_WrapperDispatch ==
    \A i \in 1..Len(results) :
        LET node == results[i].policy
            user == results[i].user_data
            Same(out) == /\ out.ok /\ out.passed = results[i].passed
                         /\ out.details = results[i].details
            IsListAt(k) == HasKey(node, k) /\ IsList(Get(node, k))
        IN IsDict(node) =>
              IF IsListAt("rules")
              THEN Same(IF MatchTypeOf(node, "ALL") = "ANY"
                        THEN _evaluate_any_of(user, Get(node, "rules"))
                        ELSE _evaluate_all_of(user, Get(node, "rules")))
              ELSE IF IsListAt("conditions")
              THEN Same(IF MatchTypeOf(node, "AND") \in {"ANY", "OR"}
                        THEN _evaluate_any_of(user, Get(node, "conditions"))
                        ELSE _evaluate_all_of(user, Get(node, "conditions")))
              ELSE HasKey(node, "condition") =>
                      Same(evaluate(user, Get(node, "condition")))

\* C16's case: a rules list with match_type any beside a failing anyOf is
\* an OR over the rules and passes; a rules list with matchType OR is an AND
\* and fails
C16_Witness ==
    /\ pc = "done" /\ Len(results) = 1
    /\ IsDict(results[1].policy)
    /\ HasKey(results[1].policy, "rules") /\ HasKey(results[1].policy, "anyOf")
    /\ \/ /\ GetOr(results[1].policy, "match_type", Null) = Str("any")
          /\ results[1].passed /\ results[1].details.type = "anyOf"
          /\ Len(results[1].details.conditions) = 2
       \/ /\ GetOr(results[1].policy, "matchType", Null) = Str("OR")
          /\ ~results[1].passed /\ results[1].details.type = "allOf"

\* the positions (from 0) of the mapping elements of a list, in order
MappingPositions(xs) ==
    LET at == {i \in 1..Len(xs) : IsDict(xs[i])}
        Rank(i) == Cardinality({j \in at : j <= i})
    IN [k \in 1..Cardinality(at) |-> (CHOOSE i \in at : Rank(i) = k) - 1]

\* C17: when an upload's policy document is a mapping in which a configured
\* wrapper key holds a list and normalization succeeded, the entries are the
\* mapping elements, in order, of the list under the first such key in
\* configured order; every context records that key as section and the
\* element's position in that list, and none is tagged detected.
C17_FirstWrapperKeyWins ==
    (/\ flow = "upload" /\ pc = "done" /\ evaluated
     /\ IsDict(policy_records[1].raw))
    => LET payload == policy_records[1].raw
           hits == {i \in 1..Len(POLICY_WRAPPER_KEYS) :
                       /\ HasKey(payload, POLICY_WRAPPER_KEYS[i])
                       /\ IsList(Get(payload, POLICY_WRAPPER_KEYS[i]))}
           key == POLICY_WRAPPER_KEYS[CHOOSE i \in hits : \A j \in hits : i <= j]
           FromList(xs, at) ==
               /\ Len(policies) = Len(at) /\ Len(policy_contexts) = Len(at)
               /\ \A k \in 1..Len(at) :
                     /\ policies[k] = xs[at[k] + 1]
                     /\ policy_contexts[k].section = key
                     /\ policy_contexts[k].position = at[k]
                     /\ "detected" \notin DOMAIN policy_contexts[k]
       IN hits # {} => FromList(Get(payload, key).xs, MappingPositions(Get(payload, key).xs))

\* C17's case: rules comes first in the document and policies first in the
\* configuration; the entries are the two mappings of the policies list
C17_Witness ==
    /\ flow = "upload" /\ pc = "done" /\ evaluated
    /\ IsDict(policy_records[1].raw)
    /\ Keys(policy_records[1].raw) = <<"rules", "policies">>
    /\ Len(policies) = 2
    /\ policy_contexts[1].section = "policies"
    /\ policy_contexts[2].position = 2

RECURSIVE CandidatePaths(_, _)
\* the positions, mapping by mapping, of every list held at a key of v or of
\* a mapping nested in v, v being depth levels down
CandidatePaths(v, depth) ==
    IF ~IsDict(v) \/ depth > max_depth THEN {}
    ELSE UNION {IF IsList(v.kv[i][2]) THEN {<<i>>}
                ELSE {<<i>> \o q : q \in CandidatePaths(v.kv[i][2], depth + 1)} :
                   i \in 1..Len(v.kv)}

RECURSIVE ListAt(_, _)
\* the list those positions lead to
ListAt(v, path) ==
    IF path = <<>> THEN v.xs ELSE ListAt(v.kv[Head(path)][2], Tail(path))

RECURSIVE KeyPath(_, _)
\* the keys on the way, joined by dots
KeyPath(v, path) ==
    IF Len(path) = 1 THEN v.kv[path[1]][1]
    ELSE v.kv[Head(path)][1] \o "." \o KeyPath(v.kv[Head(path)][2], Tail(path))

\* path p is met before path q in a depth-first traversal in insertion order
MetBefore(p, q) ==
    \E i \in 1..Len(p) :
        /\ i <= Len(q) /\ p[i] < q[i]
        /\ \A j \in 1..(i - 1) : p[j] = q[j]

\* C18: a call of _find_largest_array returns the dot-joined key path and
\* the list of a longest list among those of at least min_size elements held
\* at a key of the mapping or of its nested mappings within the depth bound,
\* the first one met in insertion-order depth-first traversal when several
\* are as long; and (none, []) when there is no such list.
C18_LargestArray ==
    (flow = "search" /\ pc = "done") =>
        LET data == search.data
            cands == {p \in CandidatePaths(data, 0) :
                         Len(ListAt(data, p)) >= search.min_size}
        IN IF cands = {} THEN returned = <<"", <<>>>>
           ELSE \E p \in cands :
                   /\ returned = <<KeyPath(data, p), ListAt(data, p)>>
                   /\ \A q \in cands \ {p} :
                         \/ Len(ListAt(data, q)) < Len(ListAt(data, p))
                         \/ /\ Len(ListAt(data, q)) = Len(ListAt(data, p))
                            /\ MetBefore(p, q)

\* C18's case: nested.items, of four elements, is selected; and of three
\* lists of two elements the first one met is
C18_Witness ==
    /\ flow = "search" /\ pc = "done" /\ search.min_size = 1
    /\ \/ returned = <<"nested.items", <<Num(1), Num(2), Num(3), Num(4)>>>>
       \/ /\ Keys(search.data) = <<"a", "b", "d">>
          /\ returned[1] = "a"

\* v is a string that parses as an ISO-8601 timestamp
ParsesAsTimestamp(v) == IsStr(v) /\ _try_parse_datetime(v).ok

\* the signs of a - b an ordering operator accepts
Accepts(op) == CASE op = ">" -> {1} [] op = "<" -> {-1}
                 [] op = ">=" -> {0, 1} [] op = "<=" -> {-1, 0}

\* C19: in every returned evaluation of a leaf rule with the operator >, <,
\* >= or <=: when the record's value and the expected value are both
\* strings that parse as timestamps, the trace has no error and, both having
\* an offset or both having none, the verdict is the comparison of the two
\* instants; actual 2024-01-01T00:00:00Z > expected 2023-01-01T00:00:00
\* passes; when not both parse and both values convert to numbers, the trace
\* has no error and the verdict is the comparison of the two numbers.
C19_TimestampOrdering ==
    \A i \in 1..Len(results) :
        (/\ IsLeafRule(results[i].policy)
         /\ Get(results[i].policy, "operator").s \in {">", "<", ">=", "<="})
        => LET d == results[i].details
               want == Accepts(Get(results[i].policy, "operator").s)
               Sign(x, y) == IF x < y THEN -1 ELSE IF x > y THEN 1 ELSE 0
               Stamps(da, db) ==
                   /\ "error" \notin DOMAIN d
                   /\ da.aware = db.aware =>
                         results[i].passed = (CmpInstant(da.at, db.at) \in want)
                   /\ (/\ d.actual = Str("2024-01-01T00:00:00Z")
                       /\ d.expected = Str("2023-01-01T00:00:00")
                       /\ want = {1}) => results[i].passed
               Numbers(fa, fb) ==
                   (fa.ok /\ fb.ok) =>
                       /\ "error" \notin DOMAIN d
                       /\ results[i].passed = (Sign(fa.v, fb.v) \in want)
           IN IF IsNull(d.actual) \/ IsNull(d.expected) THEN TRUE
              ELSE IF ParsesAsTimestamp(d.actual) /\ ParsesAsTimestamp(d.expected)
              THEN Stamps(_try_parse_datetime(d.actual), _try_parse_datetime(d.expected))
              ELSE Numbers(FloatOf(d.actual), FloatOf(d.expected))

\* the mapping elements of a list, in order
MappingElements(xs) == SelectSeq(xs, IsDict)

\* C20: in an upload whose user document is a JSON list, the user entries
\* are exactly the mapping elements of that list, in order; and in an upload
\* whose policy document is a list that normalized, the policy entries are
\* exactly its mapping elements, in order, the k-th context (from 0) having
\* index k and, as position, the element's index in the document.
C20_ListPayloadEntries ==
    (flow = "upload" /\ pc = "done") =>
        /\ (EndsWith(user_records[1].filename, ".json") /\ IsList(user_records[1].raw))
              => users = MappingElements(user_records[1].raw.xs)
        /\ (evaluated /\ IsList(policy_records[1].raw))
              => LET xs == policy_records[1].raw.xs
                     at == MappingPositions(xs)
                 IN /\ policies = MappingElements(xs)
                    /\ Len(policy_contexts) = Len(at)
                    /\ \A k \in 1..Len(at) :
                          /\ policy_contexts[k].position = at[k]
                          /\ policy_contexts[k].index = k - 1

\* a node evaluate hands to _evaluate_condition: a mapping with no wrapper
\* and no combinator key
IsLeafNode(p) ==
    /\ IsDict(p)
    /\ \A k \in {"condition", "allOf", "anyOf", "not", "and", "or"} : ~HasKey(p, k)
    /\ \A k \in {"rules", "conditions"} : HasKey(p, k) => ~IsList(Get(p, k))

\* the rule holds a key of the list
HoldsAny(rule, keys) == \E i \in 1..Len(keys) : HasKey(rule, keys[i])

\* the value under the first key of the list that the rule holds
FirstHeld(rule, keys) ==
    LET held == {i \in 1..Len(keys) : HasKey(rule, keys[i])}
    IN Get(rule, keys[CHOOSE i \in held : \A j \in held : i <= j])

RECURSIVE Follow(_, _)
\* the value reached from value through nested mappings by the keys parts,
\* none when a key is missing or a value on the way is no mapping
Follow(value, parts) ==
    IF parts = <<>> THEN value
    ELSE IF IsDict(value) /\ HasKey(value, Head(parts))
    THEN Follow(Get(value, Head(parts)), Tail(parts))
    ELSE Null

\* resolve(record, path) as the specification states it; path is a string
\* or none
Resolve(record, path) ==
    IF IsNull(path) \/ path = Str("") THEN Null
    ELSE IF IsDict(record) /\ HasKey(record, path.s) THEN Get(record, path.s)
    ELSE Follow(record, Split(path.s, "."))

\* C21: in every returned evaluation of a leaf rule that holds a field key
\* and a value key and no operator key, field and expected of the trace are
\* the values under the first field key and the first value key the rule
\* holds, in the order of the key lists; the trace operator is == and the
\* verdict is (resolved actual == expected), whatever the value is, null
\* included.
C21_DefaultOperator ==
    \A i \in 1..Len(results) :
        LET rule == results[i].policy
            d == results[i].details
        IN (/\ IsLeafNode(rule)
            /\ HoldsAny(rule, FIELD_KEYS) /\ HoldsAny(rule, VALUE_KEYS)
            /\ ~HoldsAny(rule, OP_KEYS))
           => /\ d.field = FirstHeld(rule, FIELD_KEYS)
              /\ d.expected = FirstHeld(rule, VALUE_KEYS)
              /\ d.operator = Str("==")
              /\ "error" \notin DOMAIN d
              /\ results[i].passed =
                    PyEq(Resolve(results[i].user_data, FirstHeld(rule, FIELD_KEYS)),
                         FirstHeld(rule, VALUE_KEYS))

\* an operator name lower-cased, trimmed, its spaces replaced by underscores
Spelled(name) == ReplaceCh(Strip(Lower(name)), " ", "_")

\* C22: in every returned evaluation of a leaf rule whose operator is a
\* non-empty name that, lower-cased, trimmed and with underscores for
\* spaces, is neither a registered operator nor an alias: passed is false,
\* the trace holds error unknown_operator and that spelling as the
\* normalized operator, and failed_conditions is the one entry of this
\* leaf; and the trace of a leaf rule without that error names a registered
\* operator, the handler that ran.
C22_UnknownOperator ==
    \A i \in 1..Len(results) :
        LET rule == results[i].policy
            d == results[i].details
            failed == results[i].failed_conditions
            Unknown(name) ==
                (Spelled(name) \notin OPS \cup DOMAIN OPERATOR_ALIASES)
                => /\ ~results[i].passed
                   /\ "error" \in DOMAIN d /\ d.error = Str("unknown_operator")
                   /\ d.operator_normalized = Str(Spelled(name))
                   /\ Len(failed) = 1
                   /\ failed[1].error = Str("unknown_operator")
                   /\ failed[1].field = d.field /\ failed[1].actual = d.actual
        IN IsLeafNode(rule) =>
              /\ (/\ HoldsAny(rule, OP_KEYS)
                  /\ IsStr(FirstHeld(rule, OP_KEYS))
                  /\ FirstHeld(rule, OP_KEYS) # Str(""))
                    => Unknown(FirstHeld(rule, OP_KEYS).s)
              /\ ("type" \in DOMAIN d /\ d.type = "condition")
                    => \/ "error" \in DOMAIN d /\ d.error = Str("unknown_operator")
                       \/ IsStr(d.operator) /\ d.operator.s \in OPS

\* C22's case: the operator " Frob Nicate " on a record with a role
C22_Witness ==
    /\ flow = "batch" /\ pc = "done" /\ Len(results) = 1
    /\ IsLeafNode(results[1].policy)
    /\ GetOr(results[1].policy, "operator", Null) = Str(" Frob Nicate ")
    /\ results[1].details.operator_normalized = Str("frob_nicate")
    /\ results[1].details.actual = Str("admin")
    /\ Len(results[1].failed_conditions) = 1

\* a rule that reads paths and applies no handler that can raise: implicit
\* key/value pairs, or a field that is a string or null with the operator
\* ==, exists or not_exists, or with none
IsPathRule(rule) ==
    /\ IsLeafNode(rule)
    /\ HoldsAny(rule, FIELD_KEYS) =>
          (IsNull(FirstHeld(rule, FIELD_KEYS)) \/ IsStr(FirstHeld(rule, FIELD_KEYS)))
    /\ HoldsAny(rule, OP_KEYS) =>
          FirstHeld(rule, OP_KEYS) \in {Str("=="), Str("exists"), Str("not_exists")}

\* C23: a batch over rules that only read paths (a string or none) returns,
\* and in every result the actual value of the trace, and of every entry of
\* an implicit trace, is: none for an empty or absent path; the value under
\* the path taken as one top-level key when the record holds that key, dots
\* included; otherwise the value reached by following the dot-separated
\* parts through nested mappings, none when a part is missing or a value on
\* the way is no mapping.
C23_FieldResolution ==
    /\ (flow = "batch" /\ pc # "ready"
           /\ \A j \in 1..Len(policies) : IsPathRule(policies[j]))
          => pc = "done" /\ Len(results) = Len(users) * Len(policies)
    /\ \A i \in 1..Len(results) :
          LET rule == results[i].policy
              d == results[i].details
          IN IsPathRule(rule) =>
                /\ ("type" \in DOMAIN d /\ d.type = "condition")
                      => d.actual = Resolve(results[i].user_data, d.field)
                /\ ("type" \in DOMAIN d /\ d.type = "implicit_conditions")
                      => \A k \in 1..Len(d.conditions) :
                            d.conditions[k].actual =
                               Resolve(results[i].user_data, d.conditions[k].field)

\* C23's case: profile.city read from a record that holds it both as one
\* key and as a nested value, and profile.geo.lat read through two mappings
C23_Witness ==
    /\ flow = "batch" /\ pc = "done" /\ Len(results) = 1
    /\ results[1].policy \in ResolverRules
    /\ "conditions" \in DOMAIN results[1].details
    /\ Len(results[1].details.conditions) = 2
    /\ results[1].details.conditions[1].field = Str("profile.city")
    /\ results[1].details.conditions[1].actual = Str("Milan")
    /\ results[1].details.conditions[2].actual = Num(45)

\* C24: in every returned evaluation of a leaf rule whose registered
\* operator ran: with a null actual or a null expected value, >, <, >= and
\* <= give false; with a null expected value, in gives false and not_in
\* true; with a null actual value (the field absent, or present and null)
\* contains, regex, starts_with, ends_with, exists and is_not_empty give
\* false and not_contains, not_exists and is_empty true; each of these with
\* no error in the trace; and exists gives true for every actual value that
\* is not null, 0, false and the empty string included.
C24_NullHandling ==
    \A i \in 1..Len(results) :
        LET d == results[i].details
            Gives(verdict) == "error" \notin DOMAIN d /\ results[i].passed = verdict
            Handled(op, actual, expected) ==
                /\ (op \in {">", "<", ">=", "<="} /\ (IsNull(actual) \/ IsNull(expected)))
                      => Gives(FALSE)
                /\ (op = "in" /\ IsNull(expected)) => Gives(FALSE)
                /\ (op = "not_in" /\ IsNull(expected)) => Gives(TRUE)
                /\ (/\ IsNull(actual)
                    /\ op \in {"contains", "regex", "starts_with", "ends_with",
                                "exists", "is_not_empty"}) => Gives(FALSE)
                /\ (IsNull(actual) /\ op \in {"not_contains", "not_exists", "is_empty"})
                      => Gives(TRUE)
                /\ (op = "exists" /\ ~IsNull(actual)) => Gives(TRUE)
        IN (/\ IsLeafNode(results[i].policy)
            /\ "type" \in DOMAIN d /\ d.type = "condition"
            /\ "operator_normalized" \notin DOMAIN d)
           => Handled(d.operator.s, d.actual, d.expected)

\* C24's case: >= 8 on a record whose password_length is present and null
C24_Witness ==
    /\ flow = "batch" /\ pc = "done" /\ Len(results) = 1
    /\ IsLeafNode(results[1].policy)
    /\ "type" \in DOMAIN results[1].details
    /\ results[1].details.type = "condition"
    /\ "error" \notin DOMAIN results[1].details
    /\ results[1].details.operator = Str(">=")
    /\ HasKey(results[1].user_data, "password_length")
    /\ results[1].details.actual = Null
    /\ results[1].details.expected = Num(8)
    /\ ~results[1].passed

\* the key/value pairs of a rule outside the metadata set, in the rule's
\* key order
CheckedPairs(rule) ==
    SelectSeq(rule.kv, LAMBDA e : e[1] \notin {"description", "name", "title", "id",
                                               "policy_id", "rule_id",
                                               "validation_name"})

\* C25: in every returned evaluation of a leaf rule that holds no field
\* key, no operator key and no value key: when every key of the rule is a
\* metadata key, passed is true and the trace is
\* {result: no_implicit_conditions}; otherwise the trace has one entry per
\* key outside the metadata set, in the rule's key order, each with that
\* key as field, its value as expected, the resolved value as actual and
\* passed = (actual == expected), and passed is the AND of the entries.
C25_ImplicitConjunction ==
    \A i \in 1..Len(results) :
        LET rule == results[i].policy
            d == results[i].details
            user == results[i].user_data
            EntryOf(k, pair) ==
                /\ d.conditions[k].field = Str(pair[1])
                /\ d.conditions[k].operator = Str("==")
                /\ d.conditions[k].expected = pair[2]
                /\ d.conditions[k].actual = Resolve(user, Str(pair[1]))
                /\ d.conditions[k].passed = PyEq(Resolve(user, Str(pair[1])), pair[2])
            Traced(pairs) ==
                IF pairs = <<>>
                THEN results[i].passed /\ d = [result |-> "no_implicit_conditions"]
                ELSE /\ d.type = "implicit_conditions"
                     /\ Len(d.conditions) = Len(pairs)
                     /\ \A k \in 1..Len(pairs) : EntryOf(k, pairs[k])
                     /\ results[i].passed =
                           \A k \in 1..Len(pairs) :
                              PyEq(Resolve(user, Str(pairs[k][1])), pairs[k][2])
                     /\ d.passed = results[i].passed
        IN (/\ IsLeafNode(rule)
            /\ ~HoldsAny(rule, FIELD_KEYS) /\ ~HoldsAny(rule, OP_KEYS)
            /\ ~HoldsAny(rule, VALUE_KEYS))
           => Traced(CheckedPairs(rule))

\* C25's case: a rule with description and title among its keys on an
\* active record of age 18, checked on age and status only; and a rule of
\* metadata keys only on the same record
C25_Witness ==
    /\ flow = "batch" /\ pc = "done" /\ Len(results) = 2
    /\ Keys(results[1].policy) = <<"description", "age", "title", "status">>
    /\ results[1].passed
    /\ Len(results[1].details.conditions) = 2
    /\ results[1].details.conditions[2].field = Str("status")
    /\ Len(results[2].policy.kv) = 6
    /\ results[2].details = [result |-> "no_implicit_conditions"]

\* the label the context of an entry carries: the string form of the value
\* under the first preferred key that holds a string or a number; else
\* "key: value" of the entry's first pair holding one; else the positional
\* label
LabelOf(entry, preferred_keys, positional) ==
    LET IsScalar(v) == v.t \in {"str", "num"}
        First(S) == CHOOSE i \in S : \A j \in S : i <= j
        Own(own) ==
            IF own = {} THEN positional
            ELSE entry.kv[First(own)][1] \o ": " \o PyStr(entry.kv[First(own)][2])
        Preferred(pref) ==
            IF pref = {} THEN Own({i \in 1..Len(entry.kv) : IsScalar(entry.kv[i][2])})
            ELSE PyStr(Get(entry, preferred_keys[First(pref)]))
    IN Preferred({i \in 1..Len(preferred_keys) :
                     /\ HasKey(entry, preferred_keys[i])
                     /\ IsScalar(Get(entry, preferred_keys[i]))})

\* C26: after an upload, the label of every policy context and of every
\* user context is the string form of the value under the first configured
\* label key that holds a string or a number in the entry; when no label
\* key holds one, "key: value" for the entry's first pair that holds a
\* string or a number; and when the entry holds no string and no number
\* (only booleans, nulls, lists, mappings), "Policy #N" or "User #N" with N
\* the context's index + 1.
C26_LabelDerivation ==
    (flow = "upload" /\ pc = "done") =>
        /\ \A k \in 1..Len(policy_contexts) :
              policy_contexts[k].label =
                 LabelOf(policies[k], POLICY_LABEL_KEYS,
                         "Policy #" \o IntStr(policy_contexts[k].index + 1))
        /\ \A k \in 1..Len(user_contexts) :
              user_contexts[k].label =
                 LabelOf(users[k], USER_LABEL_KEYS,
                         "User #" \o IntStr(user_contexts[k].index + 1))

\* the element of the payload raw a context points at: the element at its
\* position in the list of its section, or in raw itself; raw when the
\* context has neither
EntryAt(raw, context, position) ==
    IF "section" \in DOMAIN context
    THEN Follow(raw, Split(context.section, ".")).xs[position + 1]
    ELSE IF position >= 0 THEN raw.xs[position + 1]
    ELSE raw

\* C27: after an upload whose policy document normalized, there are as many
\* policy contexts as policy entries, the k-th context (from 0) has index k
\* and the source given, and points at its entry in the document; after a
\* selection request, the merged policy contexts and the merged user
\* contexts are as many as the entries, the k-th has index k and points at
\* the k-th entry in the payload of its record, and every result carries
\* the contexts at its policy_index and user_index.
C27_ContextsStayParallel ==
    LET Position(context, key) == IF key \in DOMAIN context THEN context[key] ELSE -1
    IN /\ (flow = "upload" /\ pc = "done" /\ Len(policies) > 0) =>
             /\ Len(policy_contexts) = Len(policies)
             /\ \A k \in 1..Len(policy_contexts) :
                   /\ policy_contexts[k].index = k - 1
                   /\ policy_contexts[k].source =
                         (IF policy_records[1].name # "" THEN policy_records[1].name
                          ELSE "Uploaded Policies")
                   /\ policies[k] = EntryAt(policy_records[1].raw, policy_contexts[k],
                                            Position(policy_contexts[k], "position"))
       /\ (flow = "selection" /\ pc = "done") =>
             /\ Len(policy_contexts) = Len(policies)
             /\ Len(user_contexts) = Len(users)
             /\ \A k \in 1..Len(policy_contexts) :
                   /\ policy_contexts[k].index = k - 1
                   /\ policies[k] =
                         EntryAt(policy_records[policy_contexts[k].policy_id].raw,
                                 policy_contexts[k],
                                 Position(policy_contexts[k], "position"))
             /\ \A k \in 1..Len(user_contexts) :
                   /\ user_contexts[k].index = k - 1
                   /\ users[k] =
                         EntryAt(user_records[user_contexts[k].record_id].raw,
                                 [section |-> "users"],
                                 Position(user_contexts[k], "record_position"))
             /\ \A r \in 1..Len(results) :
                   /\ results[r].policy_context = policy_contexts[results[r].policy_index + 1]
                   /\ results[r].user_context = user_contexts[results[r].user_index + 1]
                   /\ results[r].policy = policies[results[r].policy_index + 1]
                   /\ results[r].user_data = users[results[r].user_index + 1]

\* C27's case: a selection of two user rows and two policy rows, each row
\* contributing entries, evaluated pair by pair
C27_Witness ==
    /\ flow = "selection" /\ pc = "done" /\ response = 200
    /\ Len(user_records) = 2 /\ Len(policy_records) = 2
    /\ Len(policies) = 3 /\ policy_contexts[3].policy_id = 2
    /\ policy_contexts[3].index = 2
    /\ Len(users) = 3 /\ user_contexts[3].record_id = 2
    /\ Len(results) = 9

\* no key of the list holds a list in the mapping
NoWrapperKey(payload, wrapper_keys) ==
    \A i \in 1..Len(wrapper_keys) :
        ~(HasKey(payload, wrapper_keys[i]) /\ IsList(Get(payload, wrapper_keys[i])))

\* C28: after an upload whose policy document is a mapping in which no
\* configured wrapper key holds a list: when the largest-array search finds
\* no non-empty list, the one policy entry is the whole mapping, its context
\* without a detected tag; otherwise the policy entries are the mapping
\* elements of the list the search selected, in order, each context with
\* detected = heuristic and the list's key path as section; and the same
\* for the user entries and user contexts of a user document that is such
\* a mapping.  So the document {anyOf: [c1, c2]} gives the two entries c1
\* and c2.
C28_HeuristicDetection ==
    LET Normalized(raw, entries, contexts, found) ==
            IF Len(found[2]) = 0
            THEN /\ entries = <<raw>>
                 /\ \A k \in 1..Len(contexts) : "detected" \notin DOMAIN contexts[k]
            ELSE /\ entries = MappingElements(found[2])
                 /\ Len(contexts) = Len(entries)
                 /\ \A k \in 1..Len(contexts) :
                       /\ "detected" \in DOMAIN contexts[k]
                       /\ contexts[k].detected = "heuristic"
                       /\ contexts[k].section = found[1]
        Searched(raw, entries, contexts) ==
            Normalized(raw, entries, contexts,
                       _find_largest_array(raw, MIN_HEURISTIC_ARRAY_SIZE, max_depth))
    IN (flow = "upload" /\ pc = "done") =>
          /\ (/\ norm_failed \/ evaluated
              /\ IsDict(policy_records[1].raw)
              /\ NoWrapperKey(policy_records[1].raw, POLICY_WRAPPER_KEYS))
                => Searched(policy_records[1].raw, policies, policy_contexts)
          /\ (/\ EndsWith(user_records[1].filename, ".json")
              /\ IsDict(user_records[1].raw)
              /\ NoWrapperKey(user_records[1].raw, USER_WRAPPER_KEYS))
                => Searched(user_records[1].raw, users, user_contexts)

\* C29: every value of the alias table is a registered operator; and in
\* every returned evaluation of a leaf rule whose operator is a non-empty
\* string: when that string is the name of a registered operator, it is the
\* normalized operator recorded in the trace; and the normalized operator
\* recorded in the trace normalizes to itself.
C29_NormalizationIdempotent ==
    /\ \A a \in DOMAIN OPERATOR_ALIASES : OPERATOR_ALIASES[a] \in OPS
    /\ \A i \in 1..Len(results) :
          LET rule == results[i].policy
              d == results[i].details
              Fixed(operator, n) ==
                  /\ operator.s \in OPS => n = operator
                  /\ _normalize_operator(n) = n.s
          IN (/\ IsLeafNode(rule) /\ HoldsAny(rule, OP_KEYS)
              /\ IsStr(FirstHeld(rule, OP_KEYS)) /\ FirstHeld(rule, OP_KEYS) # Str(""))
             => Fixed(FirstHeld(rule, OP_KEYS),
                      IF "operator_normalized" \in DOMAIN d
                      THEN d.operator_normalized ELSE d.operator)

\* a leaf rule whose first field key holds a value that is not null, with
\* no operator key and no value key
IsFieldOnlyRule(rule) ==
    /\ IsLeafNode(rule)
    /\ HoldsAny(rule, FIELD_KEYS) /\ ~IsNull(FirstHeld(rule, FIELD_KEYS))
    /\ ~HoldsAny(rule, OP_KEYS) /\ ~HoldsAny(rule, VALUE_KEYS)

\* C30: a batch of records over leaf rules that hold a field key with a
\* non-null value and no operator key and no value key returns a result
\* for every pair, and every such result has passed = false, the trace of
\* one condition with error unknown_operator and no trace of implicit
\* checks, and that one condition as its failed_conditions; so
\* {name: MFA required, mfa_enabled: true} fails on every record.
C30_FieldWithoutOperator ==
    /\ (flow = "batch" /\ pc # "ready"
           /\ \A j \in 1..Len(policies) : IsFieldOnlyRule(policies[j]))
          => pc = "done" /\ Len(results) = Len(users) * Len(policies)
    /\ \A i \in 1..Len(results) :
          LET d == results[i].details
          IN IsFieldOnlyRule(results[i].policy) =>
                /\ ~results[i].passed
                /\ d.type = "condition"
                /\ d.field = FirstHeld(results[i].policy, FIELD_KEYS)
                /\ d.error = Str("unknown_operator")
                /\ "conditions" \notin DOMAIN d
                /\ Len(results[i].failed_conditions) = 1
                /\ results[i].failed_conditions[1].error = Str("unknown_operator")

====
